---------------------------- MODULE Spec2Model ----------------------------
(***************************************************************************)
(* A model of mcp-db-schema-tools: the schema validator                    *)
(* (schema_validator.py) and the schema converter (schema_converter.py).   *)
(*                                                                         *)
(* Data encoding.  A Python dict whose keys are a fixed vocabulary (a      *)
(* column definition, a foreign_key object, a table definition, a schema   *)
(* document, an index) is a TLA+ record whose DOMAIN is the set of keys    *)
(* present: "k in d" is  k \in DOMAIN d.  A dict keyed by user names whose *)
(* iteration order matters (tables, columns, seed_data, a seed record) is  *)
(* a sequence of [key, val] records with pairwise distinct keys, in        *)
(* insertion order.  A formatted message is the sequence of its literal    *)
(* fragments and interpolated names.                                       *)
(***************************************************************************)
EXTENDS Integers, Sequences, FiniteSets, TLC

VARIABLES
    pc,           \* position of the caller: which operation has run
    doc,          \* the schema document handed to the operation
    hashOrder,    \* iteration order of Python sets of table names (hash seed)
    result,       \* what the operation returned, or the exception it raised
    type_mapping, \* SchemaConverter.type_mapping: the engine whose mapping is current
    engine,       \* the db_type argument of the converter calls
    include_seed, \* the include_seed_data argument of create_database_with_schema
    schema_files, \* the list of locations merge_schemas is given
    files,        \* the file system: what each location holds
    db,           \* the target database between calls
    events,       \* what the last call did on its connection, in order
    previous      \* the result, log and database of the call before the last

vars == <<pc, doc, hashOrder, result, type_mapping, engine, include_seed, schema_files,
          files, db, events, previous>>

convVars == <<type_mapping, engine, include_seed, schema_files, files, db, events,
              previous>>

NoResult == [none |-> TRUE]

-----------------------------------------------------------------------------
(* Generic helpers for the encoding                                        *)

Has(d, k) == k \in DOMAIN d

\* d.get(k, dflt)
GetOr(d, k, dflt) == IF k \in DOMAIN d THEN d[k] ELSE dflt

\* d.get(k) used as a truth value
Truthy(d, k) == (k \in DOMAIN d) /\ (d[k] = TRUE)

\* ordered dict: k in od
OHas(od, k) == \E i \in 1..Len(od) : od[i].key = k

\* ordered dict: od[k]
OGet(od, k) == od[CHOOSE i \in 1..Len(od) : od[i].key = k].val

KV(k, v) == [key |-> k, val |-> v]

\* two mappings merged, the second winning ({**a, ...})
Merged(a, b) ==
    [k \in DOMAIN a \cup DOMAIN b |-> IF k \in DOMAIN b THEN b[k] ELSE a[k]]

\* od[k] = v on an insertion-ordered dict
OSet(od, k, v) ==
    IF OHas(od, k)
    THEN [i \in 1..Len(od) |-> IF od[i].key = k THEN KV(k, v) ELSE od[i]]
    ELSE Append(od, KV(k, v))

OKeys(od) == {od[i].key : i \in 1..Len(od)}

RECURSIVE Concat(_)
\* the concatenation of a sequence of sequences (list.extend in a loop)
Concat(ss) == IF ss = <<>> THEN <<>> ELSE Head(ss) \o Concat(Tail(ss))

RECURSIVE SumSeq(_)
SumSeq(s) == IF s = <<>> THEN 0 ELSE Head(s) + SumSeq(Tail(s))

\* the sequences over S that enumerate a finite set S without repetition
Perms(S) == {p \in [1..Cardinality(S) -> S] : \A i, j \in 1..Cardinality(S) : p[i] = p[j] => i = j}

\* sub in text, for texts given character by character
Contains(text, sub) ==
    \E i \in 0..(Len(text) - Len(sub)) :
        \A j \in 1..Len(sub) : text[i + j] = sub[j]

\* a message mentions a name when the name is one of its interpolated parts
Mentions(msg, name) == \E i \in 1..Len(msg) : msg[i] = name

-----------------------------------------------------------------------------
(* Literal values and column types                                         *)
(*                                                                         *)
(* A JSON literal is [t |-> "str" | "int" | "bool" | "null", v |-> value]. *)
(* A column type is the string of the document; the strings with a size    *)
(* suffix that occur in the model are taken apart by TypeParts.            *)

VStr(s) == [t |-> "str", v |-> s]
VInt(n) == [t |-> "int", v |-> n]
VBool(b) == [t |-> "bool", v |-> b]
VNull == [t |-> "null", v |-> "null"]

\* str(n) for the integers of the model
IntText(n) ==
    CASE n = 0 -> "0" [] n = 1 -> "1" [] n = 2 -> "2" [] n = 3 -> "3"
      [] n = 4 -> "4" [] n = 5 -> "5" [] n = 6 -> "6" [] n = 7 -> "7"
      [] n = 8 -> "8" [] n = 9 -> "9" [] OTHER -> "10+"

\* str(value): Python's generic string conversion of a literal
ValueText(val) ==
    CASE val.t = "str" -> val.v
      [] val.t = "bool" -> (IF val.v THEN "True" ELSE "False")
      [] val.t = "null" -> "None"
      [] OTHER -> IntText(val.v)

\* col_type.split("("): the part before the first "(" and the rest
TypeParts(col_type) ==
    CASE col_type = "VARCHAR(255)" -> <<"VARCHAR", "255)">>
      [] col_type = "VARCHAR(50)" -> <<"VARCHAR", "50)">>
      [] col_type = "CHAR(10)" -> <<"CHAR", "10)">>
      [] col_type = "INTEGER(11)" -> <<"INTEGER", "11)">>
      [] OTHER -> <<col_type>>

\* col_type.split("(")[0]
BaseType(col_type) == TypeParts(col_type)[1]

-----------------------------------------------------------------------------
(* schema_validator.py                                                     *)

valid_types == {"INTEGER", "VARCHAR", "TEXT", "DATETIME", "DATE",
                "BOOLEAN", "JSON", "ENUM", "REAL", "BLOB"}

valid_actions == {"CASCADE", "SET NULL", "RESTRICT", "NO ACTION"}

\* the (errors, warnings) pair the per-item validators return
EW(e, w) == [errors |-> e, warnings |-> w]

_validate_foreign_key(table_name, col_name, fk_info, all_tables) ==
    IF ~Has(fk_info, "table")
    THEN << <<"Table", table_name, "column", col_name, "Foreign key missing 'table' field">> >>
    ELSE IF ~Has(fk_info, "column")
    THEN << <<"Table", table_name, "column", col_name, "Foreign key missing 'column' field">> >>
    ELSE LET ref_table == fk_info.table
             ref_column == fk_info.column
         IN IF ~OHas(all_tables, ref_table)
            THEN << <<"Table", table_name, "column", col_name,
                      "Referenced table", ref_table, "does not exist">> >>
            ELSE LET ref_table_columns == GetOr(OGet(all_tables, ref_table), "columns", <<>>)
                 IN (IF ~OHas(ref_table_columns, ref_column)
                     THEN << <<"Table", table_name, "column", col_name,
                               "Referenced column", ref_table, ref_column, "does not exist">> >>
                     ELSE <<>>)
                    \o (IF Has(fk_info, "on_delete") /\ fk_info.on_delete \notin valid_actions
                        THEN << <<"Table", table_name, "column", col_name,
                                  "Invalid ON DELETE action", fk_info.on_delete>> >>
                        ELSE <<>>)
                    \o (IF Has(fk_info, "on_update") /\ fk_info.on_update \notin valid_actions
                        THEN << <<"Table", table_name, "column", col_name,
                                  "Invalid ON UPDATE action", fk_info.on_update>> >>
                        ELSE <<>>)

_validate_default_value(table_name, col_name, col_info) ==
    LET col_type == col_info.type
        default_val == col_info.default
    IN IF col_type = "INTEGER" /\ default_val.t \notin {"int", "bool", "str"}
       THEN << <<"Table", table_name, "column", col_name,
                 "Default value may not be compatible with INTEGER type">> >>
       ELSE IF col_type = "BOOLEAN"
               /\ ~(\/ default_val.t = "bool"
                    \/ default_val.t = "str" /\ default_val.v \in {"true", "false"}
                    \/ default_val.t = "int" /\ default_val.v \in {0, 1})
       THEN << <<"Table", table_name, "column", col_name,
                 "Default value may not be compatible with BOOLEAN type">> >>
       ELSE IF col_type = "ENUM"
               /\ ~(\E i \in 1..Len(GetOr(col_info, "values", <<>>)) :
                        default_val.t = "str"
                        /\ GetOr(col_info, "values", <<>>)[i] = default_val.v)
       THEN << <<"Table", table_name, "column", col_name,
                 "Default value", ValueText(default_val), "not in ENUM values">> >>
       ELSE <<>>

_validate_column(table_name, col_name, col_info, all_tables) ==
    IF ~Has(col_info, "type")
    THEN EW(<< <<"Table", table_name, "column", col_name, "Missing 'type' field">> >>, <<>>)
    ELSE LET col_type == col_info.type
         IN EW(
              (IF BaseType(col_type) \notin valid_types
               THEN << <<"Table", table_name, "column", col_name, "Invalid type", col_type>> >>
               ELSE <<>>)
              \o (IF col_type = "ENUM"
                  THEN IF ~Has(col_info, "values")
                       THEN << <<"Table", table_name, "column", col_name,
                                 "ENUM type requires 'values' field">> >>
                       ELSE IF Len(col_info.values) = 0
                       THEN << <<"Table", table_name, "column", col_name,
                                 "ENUM values must be non-empty list">> >>
                       ELSE <<>>
                  ELSE <<>>)
              \o (IF Has(col_info, "foreign_key")
                  THEN _validate_foreign_key(table_name, col_name, col_info.foreign_key, all_tables)
                  ELSE <<>>)
              \o (IF Truthy(col_info, "primary_key") /\ Truthy(col_info, "nullable")
                  THEN << <<"Table", table_name, "column", col_name,
                            "Primary key cannot be nullable">> >>
                  ELSE <<>>),
              IF Has(col_info, "default")
              THEN _validate_default_value(table_name, col_name, col_info)
              ELSE <<>>)

RECURSIVE _validate_indexes_from(_, _, _, _, _)
\* the loop of _validate_indexes from position i on, index_names being the names seen
_validate_indexes_from(table_name, indexes, columns, i, index_names) ==
    IF i > Len(indexes) THEN <<>>
    ELSE LET index == indexes[i]
         IN IF ~Has(index, "name")
            THEN << <<"Table", table_name, "Index missing 'name' field">> >>
                 \o _validate_indexes_from(table_name, indexes, columns, i + 1, index_names)
            ELSE IF ~Has(index, "columns")
            THEN << <<"Table", table_name, "Index", index.name, "missing 'columns' field">> >>
                 \o _validate_indexes_from(table_name, indexes, columns, i + 1, index_names)
            ELSE LET index_name == index.name
                 IN (IF index_name \in index_names
                     THEN << <<"Table", table_name, "Duplicate index name", index_name>> >>
                     ELSE <<>>)
                    \o Concat([j \in 1..Len(index.columns) |->
                          IF ~OHas(columns, index.columns[j])
                          THEN << <<"Table", table_name, "index", index_name,
                                    "Column", index.columns[j], "does not exist">> >>
                          ELSE <<>>])
                    \o _validate_indexes_from(table_name, indexes, columns, i + 1,
                                              index_names \cup {index_name})

_validate_indexes(table_name, indexes, columns) ==
    _validate_indexes_from(table_name, indexes, columns, 1, {})

_validate_table(table_name, table_info, all_tables) ==
    IF ~Has(table_info, "columns")
    THEN EW(<< <<"Table", table_name, "Missing 'columns' definition">> >>, <<>>)
    ELSE LET columns == table_info.columns
         IN IF Len(columns) = 0
            THEN EW(<< <<"Table", table_name, "No columns defined">> >>, <<>>)
            ELSE LET per_col == [i \in 1..Len(columns) |->
                                   _validate_column(table_name, columns[i].key, columns[i].val, all_tables)]
                     primary_key_count ==
                         Cardinality({i \in 1..Len(columns) : Truthy(columns[i].val, "primary_key")})
                 IN EW(
                      Concat([i \in 1..Len(columns) |-> per_col[i].errors])
                      \o (IF primary_key_count > 1
                          THEN << <<"Table", table_name, "Multiple primary keys defined">> >>
                          ELSE <<>>)
                      \o (IF Has(table_info, "indexes")
                          THEN _validate_indexes(table_name, table_info.indexes, columns)
                          ELSE <<>>),
                      Concat([i \in 1..Len(columns) |-> per_col[i].warnings])
                      \o (IF primary_key_count = 0
                          THEN << <<"Table", table_name, "No primary key defined">> >>
                          ELSE <<>>))

\* The endpoints of a relationship are kept as the parts "from".split(".") yields.
_validate_relationships(relationships, tables) ==
    EW(Concat([r \in 1..Len(relationships) |->
         LET rel == relationships[r]
         IN IF ~Has(rel, "from") \/ ~Has(rel, "to")
            THEN << <<"Relationship missing 'from' or 'to' field">> >>
            ELSE LET from_parts == rel.from
                     to_parts == rel.to
                 IN IF Len(from_parts) # 2 \/ Len(to_parts) # 2
                    THEN << <<"Invalid relationship format">> \o from_parts \o <<"->">> \o to_parts >>
                    ELSE LET from_table == from_parts[1]
                             from_col == from_parts[2]
                             to_table == to_parts[1]
                             to_col == to_parts[2]
                         IN (IF ~OHas(tables, from_table)
                             THEN << <<"Relationship references non-existent table", from_table>> >>
                             ELSE <<>>)
                            \o (IF ~OHas(tables, to_table)
                                THEN << <<"Relationship references non-existent table", to_table>> >>
                                ELSE <<>>)
                            \o (IF OHas(tables, from_table)
                                   /\ ~OHas(GetOr(OGet(tables, from_table), "columns", <<>>), from_col)
                                THEN << <<"Relationship references non-existent column",
                                          from_table, from_col>> >>
                                ELSE <<>>)
                            \o (IF OHas(tables, to_table)
                                   /\ ~OHas(GetOr(OGet(tables, to_table), "columns", <<>>), to_col)
                                THEN << <<"Relationship references non-existent column",
                                          to_table, to_col>> >>
                                ELSE <<>>)]),
       <<>>)

\* Every seed record of the model is a mapping (the isinstance test passes).
_validate_seed_data(seed_data, tables) ==
    Concat([s \in 1..Len(seed_data) |->
      LET table_name == seed_data[s].key
          records == seed_data[s].val
      IN IF ~OHas(tables, table_name)
         THEN << <<"Seed data references non-existent table", table_name>> >>
         ELSE LET table_columns == GetOr(OGet(tables, table_name), "columns", <<>>)
              IN Concat([i \in 1..Len(records) |->
                   LET record == records[i]
                   IN Concat([k \in 1..Len(record) |->
                         IF ~OHas(table_columns, record[k].key)
                         THEN << <<"Seed data for", table_name, "record", IntText(i - 1),
                                   "Column", record[k].key, "does not exist">> >>
                         ELSE <<>>])
                      \o Concat([c \in 1..Len(table_columns) |->
                         LET col_name == table_columns[c].key
                             col_info == table_columns[c].val
                         IN IF /\ Has(col_info, "nullable") /\ col_info.nullable = FALSE
                               /\ ~Has(col_info, "default")
                               /\ ~Truthy(col_info, "auto_increment")
                               /\ ~OHas(record, col_name)
                            THEN << <<"Seed data for", table_name, "record", IntText(i - 1),
                                      "Missing required column", col_name>> >>
                            ELSE <<>>])])])

\* The columns of a table that carry a foreign_key, in column order.
FkColumns(table_info) ==
    SelectSeq(GetOr(table_info, "columns", <<>>), LAMBDA c : Has(c.val, "foreign_key"))

\* Line 281 reads col_info["foreign_key"]["table"] for every column that carries a
\* foreign_key: a foreign_key object without "table" raises KeyError there.
CrossRefRaises(tables) ==
    \E t \in 1..Len(tables) : \E c \in 1..Len(FkColumns(tables[t].val)) :
        ~Has(FkColumns(tables[t].val)[c].val.foreign_key, "table")

\* The dependency graph of lines 275-283: table name -> set of referenced tables,
\* self-references left out.
Dependencies(tables) ==
    [n \in OKeys(tables) |->
        {FkColumns(OGet(tables, n))[c].val.foreign_key.table :
            c \in 1..Len(FkColumns(OGet(tables, n)))} \ {n}]

\* Iterating a Python set of strings: the order is that of the process's string
\* hashes, here the order in which the names occur in ord.
IterOrder(S, ord) == SelectSeq(ord, LAMBDA n : n \in S)

RECURSIVE has_cycle(_, _, _, _)
RECURSIVE has_cycle_loop(_, _, _, _, _)
\* has_cycle(node) of lines 289-301 on the state st = [visited, rec_stack]; it
\* returns [ret, visited, rec_stack].  A return of True leaves rec_stack as it is.
has_cycle(node, dependencies, ord, st) ==
    has_cycle_loop(node,
                   IterOrder(GetOr(dependencies, node, {}), ord),
                   dependencies, ord,
                   [visited |-> st.visited \cup {node},
                    rec_stack |-> st.rec_stack \cup {node}])

has_cycle_loop(node, neighbors, dependencies, ord, st) ==
    IF neighbors = <<>>
    THEN [ret |-> FALSE, visited |-> st.visited, rec_stack |-> st.rec_stack \ {node}]
    ELSE LET neighbor == Head(neighbors)
         IN IF neighbor \notin st.visited
            THEN LET r == has_cycle(neighbor, dependencies, ord, st)
                 IN IF r.ret
                    THEN r
                    ELSE has_cycle_loop(node, Tail(neighbors), dependencies, ord,
                                        [visited |-> r.visited, rec_stack |-> r.rec_stack])
            ELSE IF neighbor \in st.rec_stack
            THEN [ret |-> TRUE, visited |-> st.visited, rec_stack |-> st.rec_stack]
            ELSE has_cycle_loop(node, Tail(neighbors), dependencies, ord, st)

RECURSIVE DetectFrom(_, _, _, _, _)
\* the loop of lines 303-306 over the tables from position i on
DetectFrom(tables, dependencies, ord, i, st) ==
    IF i > Len(tables) THEN <<>>
    ELSE LET table_name == tables[i].key
         IN IF table_name \in st.visited
            THEN DetectFrom(tables, dependencies, ord, i + 1, st)
            ELSE LET r == has_cycle(table_name, dependencies, ord, st)
                 IN (IF r.ret
                     THEN << <<"Circular dependency detected involving table", table_name>> >>
                     ELSE <<>>)
                    \o DetectFrom(tables, dependencies, ord, i + 1,
                                  [visited |-> r.visited, rec_stack |-> r.rec_stack])

\* Defined when CrossRefRaises(tables) is false.
_validate_cross_references(tables, ord) ==
    DetectFrom(tables, Dependencies(tables), ord, 1, [visited |-> {}, rec_stack |-> {}])

_create_result(is_valid, errors, warnings, schema) ==
    LET tables == GetOr(schema, "tables", <<>>)
    IN [raised |-> FALSE,
        is_valid |-> is_valid,
        errors |-> errors,
        warnings |-> warnings,
        table_count |-> Len(tables),
        relationship_count |-> Len(GetOr(schema, "relationships", <<>>)),
        index_count |-> SumSeq([t \in 1..Len(tables) |-> Len(GetOr(tables[t].val, "indexes", <<>>))]),
        total_columns |-> SumSeq([t \in 1..Len(tables) |-> Len(GetOr(tables[t].val, "columns", <<>>))])]

\* an exception that leaves the operation
Raise(exc) == [raised |-> TRUE, exc |-> exc]

\* validate_schema going on to every check when the document has no tables
validate_schema_checking_all(schema, ord) ==
    LET w0 == IF ~Has(schema, "database")
              THEN << <<"Missing 'database' section - using defaults">> >>
              ELSE <<>>
        e0 == IF ~Has(schema, "tables")
              THEN << <<"Missing 'tables' section - schema must contain tables">> >>
              ELSE <<>>
        tables == GetOr(schema, "tables", <<>>)
        per_table == [t \in 1..Len(tables) |->
                        _validate_table(tables[t].key, tables[t].val, tables)]
        rel == IF Has(schema, "relationships")
               THEN _validate_relationships(schema.relationships, tables)
               ELSE EW(<<>>, <<>>)
        seed_errors == IF Has(schema, "seed_data")
                       THEN _validate_seed_data(schema.seed_data, tables)
                       ELSE <<>>
    IN IF CrossRefRaises(tables)
       THEN Raise("KeyError")
       ELSE LET errors == e0 \o Concat([t \in 1..Len(tables) |-> per_table[t].errors])
                          \o rel.errors \o seed_errors
                          \o _validate_cross_references(tables, ord)
                warnings == w0 \o Concat([t \in 1..Len(tables) |-> per_table[t].warnings])
                            \o rel.warnings
            IN _create_result(Len(errors) = 0, errors, warnings, schema)

\* lines 17-53
validate_schema(schema, ord) ==
    LET w0 == IF ~Has(schema, "database")
              THEN << <<"Missing 'database' section - using defaults">> >>
              ELSE <<>>
    IN IF ~Has(schema, "tables")
       THEN _create_result(FALSE,
                << <<"Missing 'tables' section - schema must contain tables">> >>, w0, schema)
       ELSE LET tables == schema.tables
                per_table == [t \in 1..Len(tables) |->
                                _validate_table(tables[t].key, tables[t].val, tables)]
                rel == IF Has(schema, "relationships")
                       THEN _validate_relationships(schema.relationships, tables)
                       ELSE EW(<<>>, <<>>)
                seed_errors == IF Has(schema, "seed_data")
                               THEN _validate_seed_data(schema.seed_data, tables)
                               ELSE <<>>
            IN IF CrossRefRaises(tables)
               THEN Raise("KeyError")
               ELSE LET errors == Concat([t \in 1..Len(tables) |-> per_table[t].errors])
                                  \o rel.errors \o seed_errors
                                  \o _validate_cross_references(tables, ord)
                        warnings == w0 \o Concat([t \in 1..Len(tables) |-> per_table[t].warnings])
                                    \o rel.warnings
                    IN _create_result(Len(errors) = 0, errors, warnings, schema)

-----------------------------------------------------------------------------
(* schema_converter.py: DDL generation                                     *)
(*                                                                         *)
(* A description is a text: the sequence of the fragments it is formatted  *)
(* from.                                                                   *)
(* Generated text is a sequence of lines; a line is the sequence of the    *)
(* fragments it is formatted from (<<>> is the empty line).  Fragments     *)
(* that matter to the readers of the text stand alone: the comment marker  *)
(* "--", the indentation, and a final "," or ";".  Names and literals of   *)
(* the model's documents contain no ";", newline or quote.                 *)

db_type_mappings ==
    [sqlite |-> [INTEGER |-> "INTEGER", VARCHAR |-> "VARCHAR", TEXT |-> "TEXT",
                 DATETIME |-> "DATETIME", DATE |-> "DATE", BOOLEAN |-> "BOOLEAN",
                 JSON |-> "TEXT", ENUM |-> "TEXT"],
     postgresql |-> [INTEGER |-> "INTEGER", VARCHAR |-> "VARCHAR", TEXT |-> "TEXT",
                     DATETIME |-> "TIMESTAMP", DATE |-> "DATE", BOOLEAN |-> "BOOLEAN",
                     JSON |-> "JSONB", ENUM |-> "TEXT"],
     mysql |-> [INTEGER |-> "INT", VARCHAR |-> "VARCHAR", TEXT |-> "TEXT",
                DATETIME |-> "DATETIME", DATE |-> "DATE", BOOLEAN |-> "TINYINT(1)",
                JSON |-> "JSON", ENUM |-> "ENUM"]]

Engines == DOMAIN db_type_mappings

Indent == "    "

\* ", ".join(items) for a sequence of fragment sequences
RECURSIVE JoinComma(_)
JoinComma(items) ==
    IF items = <<>> THEN <<>>
    ELSE IF Len(items) = 1 THEN Head(items)
    ELSE Head(items) \o <<", ">> \o JoinComma(Tail(items))

\* f"'{v}'"
Quoted(v) == <<"'", v, "'">>

\* ", ".join(f"'{v}'" for v in values)
values_str(values) == JoinComma([i \in 1..Len(values) |-> Quoted(values[i])])

\* the part appended for col_info["default"] (lines 380-389)
DefaultPart(default_val) ==
    IF default_val.t = "str" /\ default_val.v = "CURRENT_TIMESTAMP"
    THEN <<"DEFAULT", "CURRENT_TIMESTAMP">>
    ELSE IF default_val.t = "bool" THEN <<"DEFAULT", IF default_val.v THEN "1" ELSE "0">>
    ELSE IF default_val.t = "str" THEN <<"DEFAULT">> \o Quoted(default_val.v)
    ELSE <<"DEFAULT", ValueText(default_val)>>

\* NOT NULL whenever nullable is not set to a true value
ConstraintPartsNotNullByDefault(col_info) ==
    (IF ~Truthy(col_info, "nullable") THEN << <<"NOT NULL">> >> ELSE <<>>)
    \o (IF Truthy(col_info, "unique") THEN << <<"UNIQUE">> >> ELSE <<>>)
    \o (IF Has(col_info, "default") THEN << DefaultPart(col_info.default) >> ELSE <<>>)

\* lines 371-389: the parts for nullable, unique and default, in this order
ConstraintParts(col_info) ==
    (IF Has(col_info, "nullable") /\ col_info.nullable = FALSE
     THEN << <<"NOT NULL">> >> ELSE <<>>)
    \o (IF Truthy(col_info, "unique") THEN << <<"UNIQUE">> >> ELSE <<>>)
    \o (IF Has(col_info, "default") THEN << DefaultPart(col_info.default) >> ELSE <<>>)

\* the CHECK part on every engine, MySQL included
EnumCheckOnEveryEngine(col_name, col_info, db_type) ==
    IF col_info.type = "ENUM" /\ Has(col_info, "values")
    THEN << <<"CHECK (", col_name, " IN (">> \o values_str(col_info.values) \o <<"))">> >>
    ELSE <<>>

\* lines 392-400: the CHECK part of an ENUM column, appended last, not for MySQL
EnumCheckParts(col_name, col_info, db_type) ==
    IF col_info.type = "ENUM" /\ Has(col_info, "values") /\ db_type # "mysql"
    THEN << <<"CHECK (", col_name, " IN (">> \o values_str(col_info.values) \o <<"))">> >>
    ELSE <<>>

\* _generate_column_sql: the list "parts", each part the sequence of its fragments.
\* mapping is self.type_mapping (the engine whose table is current) at the call.
_generate_column_sql(col_name, col_info, db_type, mapping) ==
    LET col_type == col_info.type
        mapped == IF BaseType(col_type) \in {"VARCHAR", "CHAR"}
                  THEN col_type
                  ELSE GetOr(db_type_mappings[mapping], col_type, "TEXT")
        pk == Truthy(col_info, "primary_key")
        ai == Truthy(col_info, "auto_increment")
        enum == col_type = "ENUM" /\ Has(col_info, "values")
        type_part ==
            IF enum /\ db_type = "mysql"
            THEN <<"ENUM(">> \o values_str(col_info.values) \o <<")">>
            ELSE IF pk /\ db_type = "postgresql" /\ ai /\ mapped = "INTEGER"
            THEN <<"SERIAL">>
            ELSE <<mapped>>
    IN << <<col_name>>, type_part >>
       \o (IF ~pk THEN <<>>
           ELSE IF db_type = "postgresql" /\ ai THEN << <<"PRIMARY KEY">> >>
           ELSE IF db_type = "mysql" /\ ai THEN << <<"PRIMARY KEY">>, <<"AUTO_INCREMENT">> >>
           ELSE IF ai THEN << <<"PRIMARY KEY">>, <<"AUTOINCREMENT">> >>
           ELSE << <<"PRIMARY KEY">> >>)
       \o ConstraintParts(col_info)
       \o EnumCheckParts(col_name, col_info, db_type)

\* " ".join(parts): the fragments of a column line
ColumnLine(parts) == Concat(parts)

\* the FOREIGN KEY line of a column (lines 325-331), without indentation
FkLine(col_name, fk) ==
    <<"FOREIGN KEY (", col_name, ") REFERENCES ", fk.table, "(", fk.column, ")">>
    \o (IF Has(fk, "on_delete") THEN <<" ON DELETE ", fk.on_delete>> ELSE <<>>)
    \o (IF Has(fk, "on_update") THEN <<" ON UPDATE ", fk.on_update>> ELSE <<>>)

\* ",\n".join(all_lines): every line but the last gets a final ","
JoinLines(all_lines) ==
    IF all_lines = <<>> THEN << <<>> >>
    ELSE [i \in 1..Len(all_lines) |->
            IF i < Len(all_lines) THEN all_lines[i] \o <<",">> ELSE all_lines[i]]

\* the subscripts of _generate_table_sql that raise KeyError on a missing key
TableSqlRaises(table_info) ==
    \/ ~Has(table_info, "columns")
    \/ \E c \in 1..Len(table_info.columns) :
          LET col_info == table_info.columns[c].val
          IN \/ ~Has(col_info, "type")
             \/ /\ Has(col_info, "foreign_key")
                /\ ~({"table", "column"} \subseteq DOMAIN col_info.foreign_key)

\* the CREATE TABLE statement proper: the lines of _generate_table_sql after its comment
CreateTableLines(table_name, table_info, db_type, mapping) ==
    LET columns == table_info.columns
        column_lines == [c \in 1..Len(columns) |->
            <<Indent>> \o ColumnLine(_generate_column_sql(columns[c].key, columns[c].val,
                                                         db_type, mapping))]
        fkcols == FkColumns(table_info)
        foreign_keys == [c \in 1..Len(fkcols) |->
            <<Indent>> \o FkLine(fkcols[c].key, fkcols[c].val.foreign_key)]
    IN << <<"CREATE TABLE IF NOT EXISTS ", table_name, " (">> >>
       \o JoinLines(column_lines \o foreign_keys)
       \o (IF db_type = "mysql"
           THEN << <<") ENGINE=InnoDB DEFAULT CHARSET=utf8mb4 COLLATE=utf8mb4_unicode_ci", ";">> >>
           ELSE << <<")", ";">> >>)

\* _generate_table_sql; defined when TableSqlRaises(table_info) is false
_generate_table_sql(table_name, table_info, db_type, mapping) ==
    << <<"--">> \o GetOr(table_info, "description", <<table_name>>) >>
    \o CreateTableLines(table_name, table_info, db_type, mapping)

IndexSqlRaises(index_info) == ~({"name", "columns"} \subseteq DOMAIN index_info)

\* _generate_index_sql: one line
_generate_index_sql(table_name, index_info) ==
    <<IF Truthy(index_info, "unique")
      THEN "CREATE UNIQUE INDEX IF NOT EXISTS " ELSE "CREATE INDEX IF NOT EXISTS ",
      index_info.name, " ON ", table_name, " (">>
    \o JoinComma([i \in 1..Len(index_info.columns) |-> <<index_info.columns[i]>>])
    \o <<")", ";">>

\* the rendering of one value in _generate_insert_sql (lines 414-420)
InsertValue(value) ==
    IF value.t = "str" THEN Quoted(value.v)
    ELSE IF value.t = "null" THEN <<"NULL">>
    ELSE <<ValueText(value)>>

\* _generate_insert_sql: one line
_generate_insert_sql(table_name, record) ==
    <<"INSERT OR IGNORE INTO ", table_name, " (">>
    \o JoinComma([i \in 1..Len(record) |-> <<record[i].key>>])
    \o <<") VALUES (">>
    \o JoinComma([i \in 1..Len(record) |-> InsertValue(record[i].val)])
    \o <<")", ";">>

\* the first column with primary_key set (lines 849-852), "" for None
PrimaryKeyColumn(table_columns) ==
    IF \E c \in 1..Len(table_columns) : Truthy(table_columns[c].val, "primary_key")
    THEN table_columns[CHOOSE c \in 1..Len(table_columns) :
            /\ Truthy(table_columns[c].val, "primary_key")
            /\ \A b \in 1..(c - 1) : ~Truthy(table_columns[b].val, "primary_key")].key
    ELSE ""

\* seed data passed on as given, no key generated
SeedDataUnprocessed(seed_data, tables) == seed_data

\* _process_seed_data (lines 835-869)
_process_seed_data(seed_data, tables) ==
    [s \in 1..Len(seed_data) |->
        LET table_name == seed_data[s].key
            records == seed_data[s].val
        IN IF ~OHas(tables, table_name)
           THEN KV(table_name, records)
           ELSE LET table_columns == GetOr(OGet(tables, table_name), "columns", <<>>)
                    primary_key_column == PrimaryKeyColumn(table_columns)
                IN KV(table_name,
                      [i \in 1..Len(records) |->
                          IF /\ primary_key_column # ""
                             /\ ~OHas(records[i], primary_key_column)
                             /\ Has(OGet(table_columns, primary_key_column), "type")
                             /\ OGet(table_columns, primary_key_column).type = "INTEGER"
                          THEN records[i] \o <<KV(primary_key_column, VInt(i))>>
                          ELSE records[i]])]

\* the header comment lines and the empty line after them (lines 78-83)
HeaderLines(schema) ==
    LET db_info == GetOr(schema, "database", <<>>)
    IN << <<"--">> \o GetOr(db_info, "description", <<"Database Schema">>),
          <<"--", "Generated from JSON schema">>,
          <<"--", "Database: ", GetOr(db_info, "name", "unknown")>>,
          <<"--", "Version: ", GetOr(db_info, "version", "1.0.0")>>,
          <<>> >>

\* the tables without a foreign key put before those that have one
TableSectionReferencedFirst(tables, db_type) ==
    << <<"--", "===== TABLES =====">> >>
    \o Concat([t \in 1..Len(tables) |->
                 << <<>> >>
                 \o _generate_table_sql(
                        (SelectSeq(tables, LAMBDA e : FkColumns(e.val) = <<>>)
                         \o SelectSeq(tables, LAMBDA e : FkColumns(e.val) # <<>>))[t].key,
                        (SelectSeq(tables, LAMBDA e : FkColumns(e.val) = <<>>)
                         \o SelectSeq(tables, LAMBDA e : FkColumns(e.val) # <<>>))[t].val,
                        db_type, db_type)])

\* lines 86-89: the section comment, then per table an empty line and its text
TableSection(tables, db_type) ==
    << <<"--", "===== TABLES =====">> >>
    \o Concat([t \in 1..Len(tables) |->
                 << <<>> >> \o _generate_table_sql(tables[t].key, tables[t].val,
                                                   db_type, db_type)])

\* lines 92-96: an empty line, the section comment, one line per index
IndexSection(tables) ==
    << <<>>, <<"--", "===== INDEXES =====">> >>
    \o Concat([t \in 1..Len(tables) |->
                 LET indexes == GetOr(tables[t].val, "indexes", <<>>)
                 IN [i \in 1..Len(indexes) |->
                        _generate_index_sql(tables[t].key, indexes[i])]])

\* lines 99-104: an empty line, the section comment, one line per processed record
SeedSection(schema, tables) ==
    IF ~Has(schema, "seed_data") THEN <<>>
    ELSE LET processed_seed_data == _process_seed_data(schema.seed_data, tables)
         IN << <<>>, <<"--", "===== SEED DATA =====">> >>
            \o Concat([s \in 1..Len(processed_seed_data) |->
                  [i \in 1..Len(processed_seed_data[s].val) |->
                      _generate_insert_sql(processed_seed_data[s].key,
                                           processed_seed_data[s].val[i])]])

\* A section that is a JSON literal where an object is expected.
IsLiteral(x) == DOMAIN x = {"t", "v"}

\* lines 78-82: db_info.get raises AttributeError when the database section is
\* not an object
HeaderRaises(schema) == Has(schema, "database") /\ IsLiteral(schema.database)

\* the subscripts reached from json_to_sql that raise KeyError
JsonToSqlRaises(schema) ==
    LET tables == GetOr(schema, "tables", <<>>)
    IN \E t \in 1..Len(tables) :
          \/ TableSqlRaises(tables[t].val)
          \/ /\ Has(tables[t].val, "indexes")
             /\ \E i \in 1..Len(tables[t].val.indexes) :
                   IndexSqlRaises(tables[t].val.indexes[i])

\* the generated keys written into the caller's records
SeedDataProcessedInPlace(seed_data, tables) == _process_seed_data(seed_data, tables)

\* The caller's seed_data after _process_seed_data: every record is copied
\* before a key is set on the copy (line 858), and the records of an undefined
\* table are passed on untouched (lines 840-843).
CallerSeedData(seed_data, tables) == seed_data

\* The caller's document after json_to_sql(schema, db_type): seed processing
\* (line 100) is the only step that handles objects of the document other than
\* by reading them, and it is reached when nothing raised before it.
CallerDocument(schema, db_type) ==
    IF \/ db_type \notin Engines
       \/ HeaderRaises(schema)
       \/ JsonToSqlRaises(schema)
       \/ ~Has(schema, "seed_data")
    THEN schema
    ELSE [schema EXCEPT !.seed_data = CallerSeedData(schema.seed_data,
                                                     GetOr(schema, "tables", <<>>))]

\* json_to_sql: the text as its lines, or the exception; on a return the
\* converter's type_mapping has become db_type (lines 72-73)
json_to_sql(schema, db_type) ==
    IF db_type \notin Engines THEN Raise("ValueError")
    ELSE IF HeaderRaises(schema) THEN Raise("AttributeError")
    ELSE IF JsonToSqlRaises(schema) THEN Raise("KeyError")
    ELSE LET tables == GetOr(schema, "tables", <<>>)
         IN [raised |-> FALSE,
             text |-> HeaderLines(schema) \o TableSection(tables, db_type)
                      \o IndexSection(tables) \o SeedSection(schema, tables)]

-----------------------------------------------------------------------------
(* The target database                                                     *)
(*                                                                         *)
(* An engine is modelled by its catalog: tables (name, column and foreign  *)
(* key definitions as written), indexes, and rows.  A statement fails when *)
(* it names a table or column the catalog lacks, when a CREATE TABLE has   *)
(* no column, or when the engine does not know the statement's form;       *)
(* CREATE ... IF NOT EXISTS on an existing name changes nothing.  Row      *)
(* semantics (rowid assignment, conflicts that IGNORE drops) are SQLite's. *)
(* A statement is the sequence of its lines.                               *)

\* line.strip()
Strip(line) == IF line # <<>> /\ Head(line) = Indent THEN Tail(line) ELSE line

\* line.startswith('--')
IsComment(line) == line # <<>> /\ Head(line) = "--"

\* line.endswith(';')
EndsStatement(line) == line # <<>> /\ line[Len(line)] = ";"

\* the fragments of a statement, without indentation and final ";"
StmtAtoms(stmt) ==
    LET a == Concat([i \in 1..Len(stmt) |-> Strip(stmt[i])])
    IN IF a # <<>> /\ a[Len(a)] = ";" THEN SubSeq(a, 1, Len(a) - 1) ELSE a

StmtKind(stmt) ==
    LET a == StmtAtoms(stmt)
    IN CASE a = <<>> -> "none"
         [] a # <<>> /\ a[1] = "CREATE TABLE IF NOT EXISTS " -> "table"
         [] a # <<>> /\ a[1] \in {"CREATE INDEX IF NOT EXISTS ",
                                  "CREATE UNIQUE INDEX IF NOT EXISTS "} -> "index"
         [] a # <<>> /\ a[1] = "INSERT OR IGNORE INTO " -> "insert"
         [] OTHER -> "other"

\* the name the statement creates, or the table it inserts into
StmtTarget(stmt) == StmtAtoms(stmt)[2]

\* the first position of atom in a, 0 when absent
IndexOf(a, atom) ==
    IF \E i \in 1..Len(a) : a[i] = atom
    THEN CHOOSE i \in 1..Len(a) : a[i] = atom /\ \A j \in 1..(i - 1) : a[j] # atom
    ELSE 0

\* the items of a ", "-separated list of fragments
RECURSIVE SplitComma(_, _, _)
SplitComma(a, item, items) ==
    IF a = <<>> THEN (IF item = <<>> /\ items = <<>> THEN <<>> ELSE Append(items, item))
    ELSE IF Head(a) = ", " THEN SplitComma(Tail(a), <<>>, Append(items, item))
    ELSE SplitComma(Tail(a), Append(item, Head(a)), items)

\* the definition lines between the opening and the closing line of a CREATE TABLE
DefLines(stmt) ==
    LET inner == SelectSeq([i \in 1..(Len(stmt) - 2) |-> Strip(stmt[i + 1])],
                           LAMBDA l : l # <<>>)
    IN [i \in 1..Len(inner) |->
          IF inner[i][Len(inner[i])] = "," THEN SubSeq(inner[i], 1, Len(inner[i]) - 1)
          ELSE inner[i]]

ColumnDefs(stmt) ==
    LET defs == SelectSeq(DefLines(stmt), LAMBDA l : Head(l) # "FOREIGN KEY (")
    IN [i \in 1..Len(defs) |-> [name |-> Head(defs[i]), decl |-> Tail(defs[i])]]

FkDefs(stmt) ==
    LET defs == SelectSeq(DefLines(stmt), LAMBDA l : Head(l) = "FOREIGN KEY (")
    IN [i \in 1..Len(defs) |->
          [from |-> defs[i][2], table |-> defs[i][4], to |-> defs[i][6],
           on_delete |-> IF IndexOf(defs[i], " ON DELETE ") > 0
                         THEN defs[i][IndexOf(defs[i], " ON DELETE ") + 1] ELSE "NO ACTION",
           on_update |-> IF IndexOf(defs[i], " ON UPDATE ") > 0
                         THEN defs[i][IndexOf(defs[i], " ON UPDATE ") + 1] ELSE "NO ACTION"]]

ColumnNames(entry) == {entry.columns[i].name : i \in 1..Len(entry.columns)}

HasPart(decl, part) == \E i \in 1..Len(decl) : decl[i] = part

\* CREATE TABLE IF NOT EXISTS
ExecCreateTable(d, stmt, eng) ==
    LET name == StmtTarget(stmt)
        entry == [columns |-> ColumnDefs(stmt), fks |-> FkDefs(stmt), seq |-> 0]
    IN IF OHas(d.tables, name) THEN [ok |-> TRUE, db |-> d]
       ELSE IF entry.columns = <<>> THEN [ok |-> FALSE, db |-> d]
       ELSE IF eng # "sqlite" /\ \E i \in 1..Len(entry.fks) :
                    entry.fks[i].table # name /\ ~OHas(d.tables, entry.fks[i].table)
       THEN [ok |-> FALSE, db |-> d]
       ELSE [ok |-> TRUE, db |-> [d EXCEPT !.tables = Append(@, KV(name, entry))]]

\* CREATE [UNIQUE] INDEX IF NOT EXISTS
ExecCreateIndex(d, stmt) ==
    LET a == StmtAtoms(stmt)
        name == a[2]
        table == a[4]
        columns == SplitComma(SubSeq(a, 6, Len(a) - 1), <<>>, <<>>)
        names == [i \in 1..Len(columns) |-> columns[i][1]]
    IN IF \E i \in 1..Len(d.indexes) : d.indexes[i].name = name THEN [ok |-> TRUE, db |-> d]
       ELSE IF ~OHas(d.tables, table) THEN [ok |-> FALSE, db |-> d]
       ELSE IF names = <<>> \/ \E i \in 1..Len(names) :
                    names[i] \notin ColumnNames(OGet(d.tables, table))
       THEN [ok |-> FALSE, db |-> d]
       ELSE [ok |-> TRUE,
             db |-> [d EXCEPT !.indexes =
                        Append(@, [name |-> name, table |-> table, columns |-> names,
                                   unique |-> a[1] = "CREATE UNIQUE INDEX IF NOT EXISTS "])]]

\* the conflict-ignoring insert forms each engine parses
AcceptedForms ==
    [sqlite |-> {"INSERT OR IGNORE", "ON CONFLICT DO NOTHING"},
     postgresql |-> {"ON CONFLICT DO NOTHING"},
     mysql |-> {"INSERT IGNORE"}]

\* the value a SQL literal denotes; TRUE and FALSE are the integers 1 and 0
LiteralValue(atoms) ==
    IF Len(atoms) = 3 /\ atoms[1] = "'" THEN VStr(atoms[2])
    ELSE IF atoms = <<"NULL">> THEN VNull
    ELSE IF atoms = <<"True">> THEN VInt(1)
    ELSE IF atoms = <<"False">> THEN VInt(0)
    ELSE IF \E n \in 0..9 : IntText(n) = atoms[1]
    THEN VInt(CHOOSE n \in 0..9 : IntText(n) = atoms[1])
    ELSE VStr(atoms[1])

\* the value the driver binds for a Python value: a bool is bound as 0 or 1
BoundValue(value) ==
    IF value.t = "bool" THEN VInt(IF value.v THEN 1 ELSE 0) ELSE value

\* the record an INSERT statement of the generated text carries
InsertRecord(stmt) ==
    LET a == StmtAtoms(stmt)
        k == IndexOf(a, ") VALUES (")
        columns == SplitComma(SubSeq(a, 4, k - 1), <<>>, <<>>)
        values == SplitComma(SubSeq(a, k + 1, Len(a) - 1), <<>>, <<>>)
    IN [i \in 1..Len(columns) |-> KV(columns[i][1], LiteralValue(values[i]))]

\* the rows of one table
RowsOf(d, table) == SelectSeq(d.rows, LAMBDA r : r.table = table)

\* the first column declared PRIMARY KEY, "" when there is none
PkOf(entry) ==
    IF \E i \in 1..Len(entry.columns) : HasPart(entry.columns[i].decl, "PRIMARY KEY")
    THEN entry.columns[CHOOSE i \in 1..Len(entry.columns) :
            /\ HasPart(entry.columns[i].decl, "PRIMARY KEY")
            /\ \A j \in 1..(i - 1) : ~HasPart(entry.columns[j].decl, "PRIMARY KEY")].name
    ELSE ""

DeclOf(entry, column) ==
    entry.columns[CHOOSE i \in 1..Len(entry.columns) : entry.columns[i].name = column].decl

\* an INTEGER PRIMARY KEY column is the rowid: assigned when not given
IsRowid(entry, column) ==
    column # "" /\ column = PkOf(entry) /\ DeclOf(entry, column)[1] = "INTEGER"

Given(record, column) == OHas(record, column) /\ OGet(record, column).t # "null"

\* the largest integer key among the rows, 0 when there is none
MaxRowid(rows, column) ==
    LET used == {OGet(rows[i].values, column).v :
                    i \in {j \in 1..Len(rows) : OGet(rows[j].values, column).t = "int"}}
    IN IF used = {} THEN 0 ELSE CHOOSE m \in used : \A n \in used : n <= m

Max(a, b) == IF a >= b THEN a ELSE b

\* a conflict-ignoring insert of one record, values already bound.  The rowid
\* not given is one more than the largest in the table, and with AUTOINCREMENT
\* one more than the largest ever tried, which entry.seq remembers.  A row
\* that repeats a PRIMARY KEY or UNIQUE value, or lacks a NOT NULL value, is
\* dropped without an error.
InsertRow(d, table, record, form, eng) ==
    IF form \notin AcceptedForms[eng] \/ record = <<>> \/ ~OHas(d.tables, table)
    THEN [ok |-> FALSE, db |-> d]
    ELSE LET entry == OGet(d.tables, table)
             rows == RowsOf(d, table)
             pk == PkOf(entry)
             assigned == IsRowid(entry, pk) /\ ~Given(record, pk)
             rowid == 1 + Max(MaxRowid(rows, pk),
                              IF HasPart(DeclOf(entry, pk), "AUTOINCREMENT")
                              THEN entry.seq ELSE 0)
             full == IF assigned
                     THEN SelectSeq(record, LAMBDA kv : kv.key # pk) \o <<KV(pk, VInt(rowid))>>
                     ELSE record
             seq == IF IsRowid(entry, pk) /\ OGet(full, pk).t = "int"
                    THEN Max(entry.seq, OGet(full, pk).v) ELSE entry.seq
             keyed == {entry.columns[i].name : i \in {j \in 1..Len(entry.columns) :
                          \/ HasPart(entry.columns[j].decl, "PRIMARY KEY")
                          \/ HasPart(entry.columns[j].decl, "UNIQUE")}}
             required == {entry.columns[i].name : i \in {j \in 1..Len(entry.columns) :
                             HasPart(entry.columns[j].decl, "NOT NULL")}}
             tried == [d EXCEPT !.tables = OSet(@, table, [entry EXCEPT !.seq = seq])]
         IN IF OKeys(record) \ ColumnNames(entry) # {} THEN [ok |-> FALSE, db |-> d]
            ELSE IF \/ \E c \in required :
                          /\ ~Given(full, c)
                          /\ OHas(full, c) \/ ~HasPart(DeclOf(entry, c), "DEFAULT")
                    \/ \E c \in keyed : \E i \in 1..Len(rows) :
                          /\ Given(full, c) /\ Given(rows[i].values, c)
                          /\ OGet(full, c).t = OGet(rows[i].values, c).t
                          /\ OGet(full, c).v = OGet(rows[i].values, c).v
            THEN [ok |-> TRUE, db |-> tried]
            ELSE [ok |-> TRUE,
                  db |-> [tried EXCEPT !.rows = Append(@, [table |-> table, values |-> full])]]

\* cursor.execute(statement) for a statement of the generated text
Execute(d, stmt, eng) ==
    CASE StmtKind(stmt) = "table" -> ExecCreateTable(d, stmt, eng)
      [] StmtKind(stmt) = "index" -> ExecCreateIndex(d, stmt)
      [] StmtKind(stmt) = "insert" ->
            InsertRow(d, StmtTarget(stmt), InsertRecord(stmt), "INSERT OR IGNORE", eng)
      [] OTHER -> [ok |-> FALSE, db |-> d]

-----------------------------------------------------------------------------
(* schema_converter.py: create_database_with_schema                        *)
(*                                                                         *)
(* A call is followed through a record cs: the database as the connection  *)
(* sees it (db), as last committed (committed), the log of what was done   *)
(* on the connection (events), whether an execution raised (failed), and   *)
(* the locals seed_count and the printed warnings.  The drivers are        *)
(* installed and the target accepts the connection.                        *)

Ev(op) == [op |-> op]

\* cursor.execute of a statement of the generated text
DdlEv(stmt, ok) == [op |-> "execute", phase |-> "ddl", stmt |-> stmt, ok |-> ok]

\* cursor.execute of a parameterised insert of the seed pass
SeedEv(table, record, form, ok) ==
    [op |-> "execute", phase |-> "seed", table |-> table, record |-> record,
     form |-> form, ok |-> ok]

Connected(d) ==
    [db |-> d, committed |-> d, events |-> <<Ev("connect")>>, failed |-> FALSE,
     seed_count |-> 0, warnings |-> <<>>]

\* the table names of the model in ORDER BY name order
NameOrder == <<"A", "B", "C", "D", "E", "X", "ghosts", "posts", "users">>

SortedNames(od) == SelectSeq(NameOrder, LAMBDA n : OHas(od, n))

\* list(record.values()) as the driver binds it
Bound(record) == [i \in 1..Len(record) |-> KV(record[i].key, BoundValue(record[i].val))]

\* lines 893-906: the statements the SQLite handler finds in the text
RECURSIVE SplitLines(_, _, _)
SplitLines(lines, current_statement, statements) ==
    IF lines = <<>>
    THEN IF current_statement # <<>> THEN Append(statements, current_statement)
         ELSE statements
    ELSE LET line == Strip(Head(lines))
         IN IF line # <<>> /\ ~IsComment(line)
            THEN IF EndsStatement(line)
                 THEN SplitLines(Tail(lines), <<>>,
                                 Append(statements, Append(current_statement, line)))
                 ELSE SplitLines(Tail(lines), Append(current_statement, line), statements)
            ELSE SplitLines(Tail(lines), current_statement, statements)

\* the statements run in one transaction, nothing committed in between
RECURSIVE RunSqliteStatementsInOneBatch(_, _)
RunSqliteStatementsInOneBatch(cs, statements) ==
    IF statements = <<>> THEN cs
    ELSE LET r == Execute(cs.db, Head(statements), "sqlite")
         IN IF r.ok
            THEN RunSqliteStatementsInOneBatch(
                   [cs EXCEPT !.db = r.db,
                              !.events = Append(@, DdlEv(Head(statements), TRUE))],
                   Tail(statements))
            ELSE [cs EXCEPT !.events = Append(@, DdlEv(Head(statements), FALSE)),
                            !.failed = TRUE]

\* lines 909-917: execute and commit each statement, stop at the first that raises
RECURSIVE RunSqliteStatements(_, _)
RunSqliteStatements(cs, statements) ==
    IF statements = <<>> THEN cs
    ELSE LET r == Execute(cs.db, Head(statements), "sqlite")
         IN IF r.ok
            THEN RunSqliteStatements(
                   [cs EXCEPT !.db = r.db, !.committed = r.db,
                              !.events = @ \o <<DdlEv(Head(statements), TRUE), Ev("commit")>>],
                   Tail(statements))
            ELSE [cs EXCEPT !.events = Append(@, DdlEv(Head(statements), FALSE)),
                            !.failed = TRUE]

\* the loop over the records of one seed table (lines 930-937, 985-992, 1057-1064)
RECURSIVE SeedRecords(_, _, _, _, _)
SeedRecords(cs, table_name, records, form, eng) ==
    IF records = <<>> THEN cs
    ELSE LET r == InsertRow(cs.db, table_name, Bound(Head(records)), form, eng)
         IN IF r.ok
            THEN SeedRecords([cs EXCEPT !.db = r.db, !.seed_count = @ + 1,
                                 !.events = Append(@, SeedEv(table_name, Head(records),
                                                             form, TRUE))],
                             table_name, Tail(records), form, eng)
            ELSE [cs EXCEPT !.failed = TRUE,
                            !.events = Append(@, SeedEv(table_name, Head(records),
                                                        form, FALSE))]

\* lines 923-937: a seed table the database lacks is skipped with a warning
RECURSIVE SeedSqliteTables(_, _)
SeedSqliteTables(cs, seed_data) ==
    IF seed_data = <<>> \/ cs.failed THEN cs
    ELSE LET table_name == Head(seed_data).key
         IN IF ~OHas(cs.db.tables, table_name)
            THEN SeedSqliteTables(
                   [cs EXCEPT !.warnings = Append(@, <<"Table not found", table_name>>)],
                   Tail(seed_data))
            ELSE SeedSqliteTables(
                   SeedRecords(cs, table_name, Head(seed_data).val, "INSERT OR IGNORE",
                               "sqlite"),
                   Tail(seed_data))

\* lines 919-941: the seed pass; an exception in it is caught and printed
SeedSqlite(cs, schema, include_seed_data) ==
    IF ~(include_seed_data /\ Has(schema, "seed_data")) THEN cs
    ELSE LET after == SeedSqliteTables(cs, schema.seed_data)
         IN IF after.failed
            THEN [after EXCEPT !.failed = FALSE,
                               !.warnings = Append(@, <<"Seed data insertion failed">>)]
            ELSE [after EXCEPT !.committed = after.db, !.events = Append(@, Ev("commit"))]

\* a handler that closes the connection before its return only
FinishWithoutFinally(cs, db_type) ==
    IF cs.failed
    THEN [result |-> Raise("DatabaseError"), db |-> cs.committed,
          events |-> Append(cs.events, Ev("rollback"))]
    ELSE [result |-> [raised |-> FALSE, success |-> TRUE, db_type |-> db_type,
                      tables_created |-> Len(cs.db.tables),
                      seed_records |-> cs.seed_count,
                      tables |-> SortedNames(cs.db.tables),
                      warnings |-> cs.warnings],
          db |-> cs.committed,
          events |-> Append(cs.events, Ev("close"))]

\* what the call hands back once the connection is closed: the success dict, or
\* the re-raised exception after rollback (lines 943-960); close drops what
\* was not committed
Finish(cs, db_type) ==
    IF cs.failed
    THEN [result |-> Raise("DatabaseError"), db |-> cs.committed,
          events |-> cs.events \o <<Ev("rollback"), Ev("close")>>]
    ELSE [result |-> [raised |-> FALSE, success |-> TRUE, db_type |-> db_type,
                      tables_created |-> Len(cs.db.tables),
                      seed_records |-> cs.seed_count,
                      tables |-> SortedNames(cs.db.tables),
                      warnings |-> cs.warnings],
          db |-> cs.committed,
          events |-> Append(cs.events, Ev("close"))]

\* the seed pass is reached only when no statement raised (line 917)
SeedSqliteAfter(ddl, schema, include_seed_data) ==
    IF ddl.failed THEN ddl ELSE SeedSqlite(ddl, schema, include_seed_data)

\* _create_sqlite_database after the text was generated
_create_sqlite_database(text, schema, include_seed_data, d) ==
    Finish(SeedSqliteAfter(RunSqliteStatements(Connected(d), SplitLines(text, <<>>, <<>>)),
                           schema, include_seed_data),
           "sqlite")

\* text.split(';'): the lines of each piece; ";" ends a line of the generated text
RECURSIVE SplitSemicolon(_, _, _)
SplitSemicolon(lines, piece, pieces) ==
    IF lines = <<>> THEN Append(pieces, piece)
    ELSE IF EndsStatement(Head(lines))
    THEN SplitSemicolon(Tail(lines), <<>>,
                        Append(pieces, Append(piece, SubSeq(Head(lines), 1,
                                                            Len(Head(lines)) - 1))))
    ELSE SplitSemicolon(Tail(lines), Append(piece, Head(lines)), pieces)

\* statement.strip(): empty lines at both ends and leading blanks go
StripPiece(piece) ==
    LET full == {i \in 1..Len(piece) : Strip(piece[i]) # <<>>}
    IN IF full = {} THEN <<>>
       ELSE LET a == CHOOSE i \in full : \A j \in full : i <= j
                b == CHOOSE i \in full : \A j \in full : j <= i
            IN [i \in 1..(b - a + 1) |->
                  IF i = 1 THEN Strip(piece[a]) ELSE piece[a + i - 1]]

\* the pieces the PostgreSQL and MySQL handlers execute (lines 976-979, 1048-1051)
ExecutedPieces(text) ==
    LET pieces == SplitSemicolon(text, <<>>, <<>>)
        stripped == [i \in 1..Len(pieces) |-> StripPiece(pieces[i])]
    IN SelectSeq(stripped, LAMBDA statement : statement # <<>> /\ ~IsComment(statement[1]))

\* execute each piece inside the open transaction; MySQL commits implicitly
\* with every CREATE TABLE and CREATE INDEX
RECURSIVE RunPieces(_, _, _)
RunPieces(cs, statements, eng) ==
    IF statements = <<>> THEN cs
    ELSE LET r == Execute(cs.db, Head(statements), eng)
         IN IF r.ok
            THEN RunPieces(
                   [cs EXCEPT !.db = r.db,
                              !.committed = IF eng = "mysql" /\ StmtKind(Head(statements))
                                                                   \in {"table", "index"}
                                            THEN r.db ELSE @,
                              !.events = Append(@, DdlEv(Head(statements), TRUE))],
                   Tail(statements), eng)
            ELSE [cs EXCEPT !.events = Append(@, DdlEv(Head(statements), FALSE)),
                            !.failed = TRUE]

\* lines 983-992, 1055-1064: every seed table, no look at the catalog first
RECURSIVE SeedTables(_, _, _, _)
SeedTables(cs, seed_data, form, eng) ==
    IF seed_data = <<>> \/ cs.failed THEN cs
    ELSE SeedTables(SeedRecords(cs, Head(seed_data).key, Head(seed_data).val, form, eng),
                    Tail(seed_data), form, eng)

\* the insert form of each handler's seed pass (lines 935, 990, 1062)
SeedForm ==
    [sqlite |-> "INSERT OR IGNORE", postgresql |-> "ON CONFLICT DO NOTHING",
     mysql |-> "INSERT IGNORE"]

\* lines 981-992, 1053-1064: the seed pass, reached only when no statement raised
SeedServerAfter(ddl, schema, include_seed_data, eng) ==
    IF ~ddl.failed /\ include_seed_data /\ Has(schema, "seed_data")
    THEN SeedTables(ddl, schema.seed_data, SeedForm[eng], eng)
    ELSE ddl

\* conn.commit() (lines 994, 1066), reached only when nothing raised
CommitAll(cs) ==
    IF cs.failed THEN cs
    ELSE [cs EXCEPT !.committed = cs.db, !.events = Append(@, Ev("commit"))]

\* the common body of _create_postgresql_database and _create_mysql_database
\* after the text was generated
CreateServerDatabase(text, schema, include_seed_data, d, eng) ==
    Finish(CommitAll(SeedServerAfter(RunPieces(Connected(d), ExecutedPieces(text), eng),
                                     schema, include_seed_data, eng)),
           eng)

_create_postgresql_database(text, schema, include_seed_data, d) ==
    CreateServerDatabase(text, schema, include_seed_data, d, "postgresql")

_create_mysql_database(text, schema, include_seed_data, d) ==
    CreateServerDatabase(text, schema, include_seed_data, d, "mysql")

\* the handler of db_type: json_to_sql is its first call (lines 885, 968, 1033),
\* and what it raises leaves the handler before any connection is made
CreateDatabase(generated, schema, db_type, include_seed_data, d) ==
    IF generated.raised THEN [result |-> generated, db |-> d, events |-> <<>>]
    ELSE IF db_type = "sqlite"
    THEN _create_sqlite_database(generated.text, schema, include_seed_data, d)
    ELSE IF db_type = "postgresql"
    THEN _create_postgresql_database(generated.text, schema, include_seed_data, d)
    ELSE _create_mysql_database(generated.text, schema, include_seed_data, d)

\* the handler is entered whatever db_type is, and the engine is looked at
\* only where the text is generated
create_database_unchecked(schema, db_type, include_seed_data, d, mapping) ==
    Merged(CreateDatabase(json_to_sql(schema, db_type), schema, db_type,
                          include_seed_data, d),
           [mapping |-> db_type])

\* create_database_with_schema on a target holding d: the result, the target
\* afterwards, the log of the connection and the converter's type mapping
create_database_with_schema(schema, db_type, include_seed_data, d, mapping) ==
    IF db_type \notin Engines
    THEN [result |-> Raise("ValueError"), db |-> d, events |-> <<>>, mapping |-> mapping]
    ELSE Merged(CreateDatabase(json_to_sql(schema, db_type), schema, db_type,
                               include_seed_data, d),
                [mapping |-> db_type])

-----------------------------------------------------------------------------
(* schema_converter.py: sql_to_json                                        *)

\* _parse_sql_type on a declared type of the model
_parse_sql_type(sql_type) ==
    IF sql_type = "VARCHAR(255)" THEN [type |-> sql_type, max_length |-> 255]
    ELSE IF sql_type = "VARCHAR(50)" THEN [type |-> sql_type, max_length |-> 50]
    ELSE IF sql_type \in {"INTEGER", "TEXT", "REAL", "BLOB", "DATETIME", "DATE", "BOOLEAN"}
    THEN [type |-> sql_type]
    ELSE [type |-> "TEXT"]

\* PRAGMA table_info: the declared type of a column
DeclaredType(decl) ==
    IF decl # <<>> /\ decl[1] \notin {"PRIMARY KEY", "NOT NULL", "UNIQUE", "DEFAULT", "CHECK ("}
    THEN decl[1] ELSE ""

\* lines 453-462: column_def["default"] from dflt_value, the text written after DEFAULT
DefaultEntry(decl) ==
    LET k == IndexOf(decl, "DEFAULT")
    IN IF k = 0 THEN <<>>
       ELSE IF decl[k + 1] = "'" THEN [default |-> VStr(decl[k + 2])]
       ELSE IF \E n \in 0..9 : IntText(n) = decl[k + 1]
       THEN [default |-> VInt(CHOOSE n \in 0..9 : IntText(n) = decl[k + 1])]
       ELSE [default |-> VStr(decl[k + 1])]

\* _extract_enum_values for the column's CHECK (<name> IN (...)) in the stored text
_extract_enum_values(col_name, decl) ==
    LET k == IndexOf(decl, "CHECK (")
    IN IF k = 0 \/ decl[k + 1] # col_name THEN <<>>
       ELSE LET items == SplitComma(SubSeq(decl, k + 3, Len(decl) - 1), <<>>, <<>>)
                quoted == SelectSeq(items, LAMBDA it : Len(it) = 3 /\ it[2] # "")
            IN [i \in 1..Len(quoted) |-> quoted[i][2]]

\* the column_def built for one column (lines 443-470)
SqliteColumnDef(col) ==
    LET enum_values == _extract_enum_values(col.name, col.decl)
        column_def == Merged(Merged(_parse_sql_type(DeclaredType(col.decl)),
                                    [nullable |-> ~HasPart(col.decl, "NOT NULL"),
                                     primary_key |-> HasPart(col.decl, "PRIMARY KEY")]),
                             DefaultEntry(col.decl))
    IN IF enum_values # <<>>
       THEN Merged(column_def, [type |-> "ENUM", values |-> enum_values])
       ELSE column_def

Reverse(seq) == [i \in 1..Len(seq) |-> seq[Len(seq) + 1 - i]]

\* _extract_sqlite_table_indexes: PRAGMA index_list lists the newest index first
_extract_sqlite_table_indexes(d, table_name) ==
    LET own == SelectSeq(d.indexes, LAMBDA ix : ix.table = table_name)
    IN Reverse([i \in 1..Len(own) |->
                  [name |-> own[i].name, unique |-> own[i].unique,
                   columns |-> own[i].columns]])

\* _extract_sqlite_table_schema
_extract_sqlite_table_schema(d, table_name) ==
    LET entry == OGet(d.tables, table_name)
        indexes == _extract_sqlite_table_indexes(d, table_name)
        table_schema ==
            [description |-> <<table_name, " table">>,
             columns |-> [i \in 1..Len(entry.columns) |->
                            KV(entry.columns[i].name, SqliteColumnDef(entry.columns[i]))]]
    IN IF indexes # <<>> THEN Merged(table_schema, [indexes |-> indexes]) ELSE table_schema

\* the records appended for the foreign keys of one table (lines 507-514,
\* 644-651, 742-749)
RelationshipRecords(table_name, fks) ==
    [i \in 1..Len(fks) |->
        [name |-> <<table_name, "_to_", fks[i].table>>,
         from |-> <<table_name, ".", fks[i].from>>,
         to |-> <<fks[i].table, ".", fks[i].to>>,
         type |-> "many-to-one",
         on_delete |-> fks[i].on_delete,
         on_update |-> fks[i].on_update]]

\* _extract_sqlite_relationships: PRAGMA foreign_key_list lists the last
\* declared foreign key first
_extract_sqlite_relationships(d, tables) ==
    Concat([t \in 1..Len(tables) |->
              RelationshipRecords(tables[t], Reverse(OGet(d.tables, tables[t]).fks))])

\* _extract_sqlite_schema on a target holding d
_extract_sqlite_schema(d) ==
    LET tables == SortedNames(d.tables)
    IN [raised |-> FALSE,
        schema |-> [database |-> [name |-> "stem(db_path)", type |-> "sqlite",
                                  version |-> "1.0.0",
                                  description |-> <<"Schema extracted from ", "db_path">>,
                                  extracted_at |-> "now"],
                    tables |-> [t \in 1..Len(tables) |->
                                  KV(tables[t], _extract_sqlite_table_schema(d, tables[t]))],
                    relationships |-> _extract_sqlite_relationships(d, tables)]]

\* information_schema.columns.data_type for a type as PostgreSQL was given it
PgDataType(declared) ==
    CASE declared \in {"INTEGER", "SERIAL"} -> "integer"
      [] BaseType(declared) = "VARCHAR" -> "character varying"
      [] declared = "TEXT" -> "text"
      [] declared = "BOOLEAN" -> "boolean"
      [] declared = "TIMESTAMP" -> "timestamp without time zone"
      [] declared = "DATE" -> "date"
      [] declared = "JSONB" -> "jsonb"
      [] OTHER -> declared

\* lines 550-566: the standard type for a data_type; declared carries the length
PgStandardType(data_type, declared) ==
    CASE data_type = "character varying" -> declared
      [] data_type = "integer" -> "INTEGER"
      [] data_type = "text" -> "TEXT"
      [] data_type = "boolean" -> "BOOLEAN"
      [] data_type = "timestamp without time zone" -> "DATETIME"
      [] data_type = "date" -> "DATE"
      [] data_type = "jsonb" -> "JSON"
      [] OTHER -> data_type

\* lines 577-585: column_default as PostgreSQL reports it is the written
\* default followed by a cast for a string, the written text otherwise
PgDefaultEntry(decl, declared) ==
    LET k == IndexOf(decl, "DEFAULT")
    IN IF declared = "SERIAL" THEN [auto_increment |-> TRUE]
       ELSE IF k = 0 THEN <<>>
       ELSE IF decl[k + 1] = "'"
       THEN [default |-> <<"'", decl[k + 2], "'", "::", PgDataType(declared)>>]
       ELSE [default |-> <<decl[k + 1]>>]

\* _extract_postgresql_indexes for the indexes created by CREATE INDEX: the
\* text between the parentheses of indexdef is the one element of "columns"
_extract_postgresql_indexes(d, table_name) ==
    LET own == SelectSeq(d.indexes, LAMBDA ix : ix.table = table_name)
    IN [i \in 1..Len(own) |->
          [name |-> own[i].name, unique |-> own[i].unique,
           columns |-> <<JoinComma([c \in 1..Len(own[i].columns) |->
                                      <<own[i].columns[c]>>])>>]]

\* _extract_postgresql_table_schema; a primary key column is not nullable
_extract_postgresql_table_schema(d, table_name) ==
    LET entry == OGet(d.tables, table_name)
        indexes == _extract_postgresql_indexes(d, table_name)
        table_schema ==
          [description |-> <<table_name, " table">>,
           columns |-> [i \in 1..Len(entry.columns) |->
              LET decl == entry.columns[i].decl
                  declared == DeclaredType(decl)
                  data_type == PgDataType(declared)
              IN KV(entry.columns[i].name,
                    Merged(Merged([type |-> PgStandardType(data_type, declared),
                                   nullable |-> ~HasPart(decl, "NOT NULL")
                                                /\ ~HasPart(decl, "PRIMARY KEY"),
                                   primary_key |-> HasPart(decl, "PRIMARY KEY")],
                                  IF data_type = "character varying"
                                  THEN [max_length |-> _parse_sql_type(declared).max_length]
                                  ELSE <<>>),
                           PgDefaultEntry(decl, declared)))]]
    IN IF indexes # <<>> THEN Merged(table_schema, [indexes |-> indexes]) ELSE table_schema

\* DESCRIBE: the column type as MySQL reports it, character by character
MysqlColumnType(declared) ==
    CASE declared = "INT" -> <<"i", "n", "t">>
      [] declared = "TINYINT(1)" -> <<"t", "i", "n", "y", "i", "n", "t", "(", "1", ")">>
      [] declared = "TEXT" -> <<"t", "e", "x", "t">>
      [] declared = "DATETIME" -> <<"d", "a", "t", "e", "t", "i", "m", "e">>
      [] declared = "DATE" -> <<"d", "a", "t", "e">>
      [] declared = "JSON" -> <<"j", "s", "o", "n">>
      [] OTHER -> <<declared>>

\* the pairs of type_mapping in _parse_mysql_type, in the order the loop visits them
MysqlTypeMapping ==
    << <<<<"i", "n", "t">>, "INTEGER">>,
       <<<<"t", "i", "n", "y", "i", "n", "t", "(", "1", ")">>, "BOOLEAN">>,
       <<<<"t", "e", "x", "t">>, "TEXT">>,
       <<<<"d", "a", "t", "e", "t", "i", "m", "e">>, "DATETIME">>,
       <<<<"d", "a", "t", "e">>, "DATE">>,
       <<<<"j", "s", "o", "n">>, "JSON">> >>

\* _extract_postgresql_relationships
_extract_postgresql_relationships(d, tables) ==
    Concat([t \in 1..Len(tables) |->
              RelationshipRecords(tables[t], OGet(d.tables, tables[t]).fks)])

\* _extract_postgresql_schema on a target holding d
_extract_postgresql_schema(d) ==
    LET tables == SortedNames(d.tables)
    IN [raised |-> FALSE,
        schema |-> [database |-> [name |-> "postgresql_db", type |-> "postgresql",
                                  version |-> "1.0.0",
                                  description |-> <<"Schema extracted from PostgreSQL">>,
                                  extracted_at |-> "now"],
                    tables |-> [t \in 1..Len(tables) |->
                        KV(tables[t], _extract_postgresql_table_schema(d, tables[t]))],
                    relationships |-> _extract_postgresql_relationships(d, tables)]]

\* the first pair of the mapping whose key occurs in type_str, 0 when none does
FirstMapped(type_str) ==
    IF \E i \in 1..Len(MysqlTypeMapping) : Contains(type_str, MysqlTypeMapping[i][1])
    THEN CHOOSE i \in 1..Len(MysqlTypeMapping) :
            /\ Contains(type_str, MysqlTypeMapping[i][1])
            /\ \A j \in 1..(i - 1) : ~Contains(type_str, MysqlTypeMapping[j][1])
    ELSE 0

\* _parse_mysql_type; declared is the type as written, which for ENUM and
\* VARCHAR carries the values and the length that type_str spells out
_parse_mysql_type(type_str, declared, decl) ==
    IF declared = "ENUM("
    THEN [type |-> "ENUM",
          values |-> LET items == SplitComma(SubSeq(decl, 2, IndexOf(decl, ")") - 1),
                                             <<>>, <<>>)
                     IN [i \in 1..Len(items) |-> items[i][2]]]
    ELSE IF BaseType(declared) = "VARCHAR" /\ Len(TypeParts(declared)) > 1
    THEN _parse_sql_type(declared)
    ELSE IF FirstMapped(type_str) > 0
    THEN [type |-> MysqlTypeMapping[FirstMapped(type_str)][2]]
    ELSE [type |-> declared]

\* _extract_mysql_indexes for the indexes created by CREATE INDEX
_extract_mysql_indexes(d, table_name) ==
    LET own == SelectSeq(d.indexes, LAMBDA ix : ix.table = table_name)
    IN [i \in 1..Len(own) |->
          [name |-> own[i].name, unique |-> own[i].unique, columns |-> own[i].columns]]

\* lines 687-691: DESCRIBE shows a string default without its quotes
MysqlDefaultEntry(decl) ==
    LET k == IndexOf(decl, "DEFAULT")
    IN IF k = 0 THEN <<>>
       ELSE IF decl[k + 1] = "'" THEN [default |-> VStr(decl[k + 2])]
       ELSE [default |-> VStr(decl[k + 1])]

\* _extract_mysql_table_schema; a primary key column is not nullable
_extract_mysql_table_schema(d, table_name) ==
    LET entry == OGet(d.tables, table_name)
        indexes == _extract_mysql_indexes(d, table_name)
        table_schema ==
          [description |-> <<table_name, " table">>,
           columns |-> [i \in 1..Len(entry.columns) |->
              LET decl == entry.columns[i].decl
                  declared == DeclaredType(decl)
              IN KV(entry.columns[i].name,
                    Merged(Merged(Merged(
                        _parse_mysql_type(MysqlColumnType(declared), declared, decl),
                        [nullable |-> ~HasPart(decl, "NOT NULL")
                                      /\ ~HasPart(decl, "PRIMARY KEY"),
                         primary_key |-> HasPart(decl, "PRIMARY KEY")]),
                        MysqlDefaultEntry(decl)),
                        IF HasPart(decl, "AUTO_INCREMENT")
                        THEN [auto_increment |-> TRUE] ELSE <<>>))]]
    IN IF indexes # <<>> THEN Merged(table_schema, [indexes |-> indexes]) ELSE table_schema

\* _extract_mysql_relationships
_extract_mysql_relationships(d, tables) ==
    Concat([t \in 1..Len(tables) |->
              RelationshipRecords(tables[t], OGet(d.tables, tables[t]).fks)])

\* _extract_mysql_schema on a target holding d
_extract_mysql_schema(d) ==
    LET tables == SortedNames(d.tables)
    IN [raised |-> FALSE,
        schema |-> [database |-> [name |-> "database", type |-> "mysql",
                                  version |-> "1.0.0",
                                  description |-> <<"Schema extracted from MySQL database: ",
                                                    "database">>,
                                  extracted_at |-> "now"],
                    tables |-> [t \in 1..Len(tables) |->
                        KV(tables[t], _extract_mysql_table_schema(d, tables[t]))],
                    relationships |-> _extract_mysql_relationships(d, tables)]]

\* sql_to_json: the extracted document or the exception, and the connection's log.
\* catalog_ok: the catalog queries succeed; one that raises leaves the handler
\* through its finally clause (lines 154-156, 197-198, 249-250)
sql_to_json(d, db_type, catalog_ok) ==
    IF db_type \notin Engines
    THEN [result |-> Raise("ValueError"), events |-> <<>>]
    ELSE IF ~catalog_ok
    THEN [result |-> Raise("DatabaseError"), events |-> <<Ev("connect"), Ev("close")>>]
    ELSE [result |-> CASE db_type = "sqlite" -> _extract_sqlite_schema(d)
                       [] db_type = "postgresql" -> _extract_postgresql_schema(d)
                       [] OTHER -> _extract_mysql_schema(d),
          events |-> <<Ev("connect"), Ev("close")>>]

-----------------------------------------------------------------------------
(* schema_converter.py: merge_schemas                                      *)
(*                                                                         *)
(* A location is the sequence of its characters.  files maps a location    *)
(* to [exists |-> FALSE] or to [exists |-> TRUE, schema |-> document].     *)

Lower(ch) ==
    CASE ch = "A" -> "a" [] ch = "D" -> "d" [] ch = "M" -> "m"
      [] ch = "I" -> "i" [] ch = "N" -> "n" [] OTHER -> ch

\* file_path.lower()
lower(file_path) == [i \in 1..Len(file_path) |-> Lower(file_path[i])]

Admin == <<"a", "d", "m", "i", "n">>

\* a merge in which the first definition of a table always stays
RECURSIVE MergeTablesFirstWins(_, _, _)
MergeTablesFirstWins(unified, tables, file_path) ==
    IF tables = <<>> THEN unified
    ELSE MergeTablesFirstWins(IF OHas(unified, Head(tables).key) THEN unified
                              ELSE Append(unified, Head(tables)),
                              Tail(tables), file_path)

\* a merge in which the last definition of a table always stays
RECURSIVE MergeTablesLastWins(_, _, _)
MergeTablesLastWins(unified, tables, file_path) ==
    IF tables = <<>> THEN unified
    ELSE MergeTablesLastWins(OSet(unified, Head(tables).key, Head(tables).val),
                             Tail(tables), file_path)

\* lines 283-289
RECURSIVE MergeTables(_, _, _)
MergeTables(unified, tables, file_path) ==
    IF tables = <<>> THEN unified
    ELSE LET table_name == Head(tables).key
             table_def == Head(tables).val
         IN MergeTables(IF OHas(unified, table_name)
                        THEN IF Contains(lower(file_path), Admin)
                             THEN OSet(unified, table_name, table_def)
                             ELSE unified
                        ELSE OSet(unified, table_name, table_def),
                        Tail(tables), file_path)

\* every relationship of a source is appended, present already or not
MergeRelationshipsAppendAll(unified, rels) == unified \o rels

\* lines 292-294
RECURSIVE MergeRelationships(_, _)
MergeRelationships(unified, rels) ==
    IF rels = <<>> THEN unified
    ELSE MergeRelationships(IF \E i \in 1..Len(unified) : unified[i] = Head(rels)
                            THEN unified ELSE Append(unified, Head(rels)),
                            Tail(rels))

\* lines 297-300
RECURSIVE MergeSeedData(_, _)
MergeSeedData(unified, seed_data) ==
    IF seed_data = <<>> THEN unified
    ELSE LET table_name == Head(seed_data).key
             data == Head(seed_data).val
         IN MergeSeedData(OSet(unified, table_name,
                               (IF OHas(unified, table_name)
                                THEN OGet(unified, table_name) ELSE <<>>) \o data),
                          Tail(seed_data))

\* the dict merge_schemas starts from (lines 262-272)
unified_schema ==
    [database |-> [name |-> "merged_schema", type |-> "sqlite", version |-> "1.0.0",
                   description |-> <<"Merged from multiple schema files">>],
     tables |-> <<>>, relationships |-> <<>>, seed_data |-> <<>>]

\* the body of the loop over all_files (lines 275-300)
RECURSIVE MergeFiles(_, _, _)
MergeFiles(unified, all_files, fs) ==
    IF all_files = <<>> THEN unified
    ELSE LET file_path == Head(all_files)
         IN IF ~fs[file_path].exists
            THEN MergeFiles(unified, Tail(all_files), fs)
            ELSE LET schema == fs[file_path].schema
                 IN MergeFiles(
                      [unified EXCEPT
                         !.tables = MergeTables(@, GetOr(schema, "tables", <<>>), file_path),
                         !.relationships =
                             MergeRelationships(@, GetOr(schema, "relationships", <<>>)),
                         !.seed_data = MergeSeedData(@, GetOr(schema, "seed_data", <<>>))],
                      Tail(all_files), fs)

\* merge_schemas on the expanded list all_files
merge_schemas(all_files, fs) == MergeFiles(unified_schema, all_files, fs)

Star == <<"*">>

\* glob.glob(pattern): the existing files, in an order the file system chooses
GlobResults(fs) == Perms({p \in DOMAIN fs : fs[p].exists})

\* lines 255-260: the lists all_files can become
RECURSIVE Expansions(_, _)
Expansions(patterns, fs) ==
    IF patterns = <<>> THEN { <<>> }
    ELSE LET heads == IF Contains(Head(patterns), Star)
                      THEN GlobResults(fs) ELSE { <<Head(patterns)>> }
         IN {h \o r : h \in heads, r \in Expansions(Tail(patterns), fs)}

-----------------------------------------------------------------------------
(* Documents handed to the validator                                       *)

MaxTables == 3
MaxFks == 2
MaxDefectTables == 2

TableNamePool == <<"A", "B", "C", "D", "E">>

\* the table names a document may define
TableNames == {TableNamePool[i] : i \in 1..MaxTables}

\* a table name that no document defines
Ghost == "X"

\* the name of the column that refers to table t
RefCol(t) ==
    CASE t = "A" -> "fk1" [] t = "B" -> "fk2" [] t = "C" -> "fk3"
      [] t = "D" -> "fk4" [] t = "E" -> "fk5" [] OTHER -> "fk0"

IdColumn == KV("id", [type |-> "INTEGER", primary_key |-> TRUE])

RefColumn(t) ==
    KV(RefCol(t), [type |-> "INTEGER", foreign_key |-> [table |-> t, column |-> "id"]])

\* the sets of tables one table may refer to
TargetSets == {S \in SUBSET (TableNames \cup {Ghost}) : Cardinality(S) <= MaxFks}

\* a table with an id column and one referring column per target
RefTable(name, targets) ==
    KV(name, [columns |-> <<IdColumn>>
                 \o [i \in 1..Cardinality(targets) |->
                        RefColumn(IterOrder(targets, TableNamePool \o <<Ghost>>)[i])]])

\* well-formed documents of n tables, with any reference graph among them
GraphDocsOf(n) ==
    {[tables |-> [i \in 1..n |-> RefTable(TableNamePool[i], g[i])]] : g \in [1..n -> TargetSets]}

GraphDocs == UNION {GraphDocsOf(n) : n \in 0..MaxTables}

\* d without key k
Drop(d, k) == [x \in DOMAIN d \ {k} |-> d[x]]

\* document d with table t's definition replaced by ti
ReplaceTable(d, t, ti) ==
    [d EXCEPT !.tables = [i \in 1..Len(d.tables) |->
        IF i = t THEN KV(d.tables[i].key, ti) ELSE d.tables[i]]]

\* document d with the definition of column c of table t replaced by ci
ReplaceColumn(d, t, c, ci) ==
    ReplaceTable(d, t, [d.tables[t].val EXCEPT !.columns =
        [i \in 1..Len(d.tables[t].val.columns) |->
            IF i = c THEN KV(d.tables[t].val.columns[i].key, ci)
            ELSE d.tables[t].val.columns[i]]])

\* the malformed-but-parseable variants of document d: one defect each
Defects(d) ==
    {Drop(d, "tables")}
    \cup {ReplaceTable(d, t, Drop(d.tables[t].val, "columns")) : t \in 1..Len(d.tables)}
    \cup {ReplaceTable(d, t, [d.tables[t].val EXCEPT !.columns = <<>>]) : t \in 1..Len(d.tables)}
    \cup UNION {UNION {
           LET ci == d.tables[t].val.columns[c].val
           IN {ReplaceColumn(d, t, c, Drop(ci, "type")),
               ReplaceColumn(d, t, c, [ci EXCEPT !.foreign_key = Drop(ci.foreign_key, "table")]),
               ReplaceColumn(d, t, c, [ci EXCEPT !.foreign_key = Drop(ci.foreign_key, "column")])}
           : c \in 2..Len(d.tables[t].val.columns)} : t \in 1..Len(d.tables)}

DefectDocs == UNION {Defects(d) : d \in UNION {GraphDocsOf(n) : n \in 0..MaxDefectTables}}

\* the variants of document d in which one table has no primary key or two
PrimaryKeyDefects(d) ==
    UNION {
      IF Has(d.tables[t].val, "columns") /\ Len(d.tables[t].val.columns) > 0
      THEN {ReplaceColumn(d, t, 1, Drop(d.tables[t].val.columns[1].val, "primary_key"))}
           \cup {ReplaceColumn(d, t, c, Merged(d.tables[t].val.columns[c].val,
                                              [primary_key |-> TRUE])) :
                    c \in 2..Len(d.tables[t].val.columns)}
      ELSE {}
      : t \in 1..Len(GetOr(d, "tables", <<>>))}

PrimaryKeyDocs ==
    UNION {PrimaryKeyDefects(d) :
              d \in DefectDocs \cup UNION {GraphDocsOf(n) : n \in 0..MaxDefectTables}}

\* index lists for a table with an id column: sound, and lacking a field or a column
GateIndexChoices ==
    { << [name |-> "ix_id", columns |-> <<"id">>] >>,
      << [columns |-> <<"id">>] >>,
      << [name |-> "ix_id"] >>,
      << [name |-> "ix_lost", columns |-> <<"lost">>] >> }

\* database sections: an object, and a JSON string in its place
DatabaseChoices == { [name |-> "shop"], VStr("shop") }

\* documents of at most one table with indexes on it, and documents with a
\* database section
GateDocs ==
    LET small == UNION {GraphDocsOf(n) : n \in 0..1}
        indexed == {ReplaceTable(d, 1, Merged(d.tables[1].val, [indexes |-> ix])) :
                       d \in GraphDocsOf(1), ix \in GateIndexChoices}
    IN indexed \cup {Merged(d, [database |-> db_info]) :
                        d \in small \cup indexed, db_info \in DatabaseChoices}

\* documents without the tables key: another section given or not, sound or not
NoTablesDocs ==
    { [database |-> [name |-> "shop"]],
      [relationships |-> << [name |-> "r"] >>],
      [database |-> [name |-> "shop"],
       relationships |-> << [from |-> <<"A", "id">>, to |-> <<"B", "id">>] >>],
      [seed_data |-> << KV(Ghost, << << KV("id", VInt(1)) >> >>) >>],
      [database |-> [name |-> "shop"],
       relationships |-> << [from |-> <<"A">>, to |-> <<"B", "id">>] >>,
       seed_data |-> << KV("A", << << KV("id", VInt(1)) >> >>) >>] }

ValidatorDocs == GraphDocs \cup DefectDocs \cup PrimaryKeyDocs \cup GateDocs \cup NoTablesDocs

\* the orders in which a set of table names may be iterated
HashOrders == Perms(TableNames \cup {Ghost})

EmptyDb == [tables |-> <<>>, indexes |-> <<>>, rows |-> <<>>]

\* a fresh SchemaConverter (line 64: the mapping defaults to sqlite), nothing called yet
ConverterIdle ==
    /\ type_mapping = "sqlite"
    /\ engine = "sqlite"
    /\ include_seed = FALSE
    /\ schema_files = <<>>
    /\ files = <<>>
    /\ db = EmptyDb
    /\ events = <<>>
    /\ previous = NoResult

-----------------------------------------------------------------------------
(* Files handed to merge_schemas                                           *)

MaxSchemaFiles == 2
FilesOnDisk == 2

LocationPool ==
    { <<"u", "s", "e", "r", "s">>,
      <<"a", "d", "m", "i", "n">>,
      <<"c", "f", "g", "/", "A", "d", "M", "I", "N", "2">>,
      <<"a", "d", "m", "1", "n">>,
      <<"p", "o", "s", "t", "s">> }

UsersBase == [columns |-> <<IdColumn>>]
UsersOther == [description |-> <<"accounts">>,
               columns |-> <<IdColumn, KV("role", [type |-> "TEXT"])>>]
Posts == [columns |-> <<IdColumn>>]

Rel1 == [name |-> "r1", from |-> "posts.id", to |-> "users.id"]
Rel2 == [name |-> "r2", from |-> "users.id", to |-> "posts.id"]

MergeTableChoices ==
    { <<KV("users", UsersBase)>>, <<KV("users", UsersOther)>>, <<KV("posts", Posts)>>,
      <<KV("users", UsersBase), KV("posts", Posts)>>,
      <<KV("posts", Posts), KV("users", UsersOther)>> }

MergeRelChoices == { <<Rel1>>, <<Rel1, Rel2>>, <<Rel2, Rel2>> }

MergeSeedChoices == { <<>>, <<KV("users", << <<KV("id", VInt(1))>> >>)>> }

\* what a location can hold: nothing, a document without the three keys, or one with them
FileContents ==
    { [exists |-> FALSE], [exists |-> TRUE, schema |-> [database |-> [name |-> "d"]]] }
    \cup { [exists |-> TRUE,
            schema |-> [tables |-> t, relationships |-> r, seed_data |-> s]] :
           t \in MergeTableChoices, r \in MergeRelChoices, s \in MergeSeedChoices }

FileSystems ==
    UNION { [D -> FileContents] : D \in {D \in SUBSET LocationPool : Cardinality(D) = FilesOnDisk} }

\* the lists of at most MaxSchemaFiles literal locations or patterns
SchemaFileLists(fs) ==
    UNION { [1..n -> DOMAIN fs \cup {Star}] : n \in 1..MaxSchemaFiles }

InitMerge ==
    /\ pc = "ready"
    /\ doc = <<>>
    /\ hashOrder = <<>>
    /\ result = NoResult
    /\ type_mapping = "sqlite"
    /\ engine = "sqlite"
    /\ include_seed = FALSE
    /\ files \in FileSystems
    /\ schema_files \in SchemaFileLists(files)
    /\ db = EmptyDb
    /\ events = <<>>
    /\ previous = NoResult

\* one call of merge_schemas(schema_files)
MergeSchemas ==
    /\ pc = "ready"
    /\ \E all_files \in Expansions(schema_files, files) :
          result' = [raised |-> FALSE, schema |-> merge_schemas(all_files, files)]
    /\ pc' = "merged"
    /\ UNCHANGED <<doc, hashOrder, type_mapping, engine, include_seed, schema_files,
                   files, db, events, previous>>

NextMerge == MergeSchemas

SpecMerge == InitMerge /\ [][NextMerge]_vars

-----------------------------------------------------------------------------
(* Documents handed to the converter                                       *)

MaxExtraColumns == 1
MaxSeedRecords == 2

IdAuto == KV("id", [type |-> "INTEGER", primary_key |-> TRUE, auto_increment |-> TRUE])
IdText == KV("id", [type |-> "TEXT", primary_key |-> TRUE])
NameColumn == KV("name", [type |-> "TEXT"])

PkChoices == {IdColumn, IdAuto, IdText}

ExtraColumns ==
    { KV("nick", [type |-> "VARCHAR(50)", nullable |-> FALSE, default |-> VStr("n")]),
      KV("flag", [type |-> "BOOLEAN", default |-> VBool(TRUE)]),
      KV("status", [type |-> "ENUM", values |-> <<"a", "b">>, default |-> VStr("a")]),
      KV("ts", [type |-> "DATETIME", default |-> VStr("CURRENT_TIMESTAMP")]),
      KV("born", [type |-> "DATE"]),
      KV("email", [type |-> "TEXT", unique |-> TRUE]) }

\* the sequences of at most n distinct members of S
RECURSIVE SeqsUpTo(_, _)
SeqsUpTo(S, n) ==
    IF n = 0 THEN { <<>> }
    ELSE SeqsUpTo(S, n - 1)
         \cup {Append(q, x) : q \in {r \in SeqsUpTo(S, n - 1) : Len(r) = n - 1}, x \in S}

IndexChoices ==
    { <<>>,
      <<[name |-> "ix_name", columns |-> <<"name">>],
        [name |-> "ix_pair", columns |-> <<"id", "name">>, unique |-> TRUE]>>,
      <<[name |-> "ix_lost", columns |-> <<"lost">>]>> }

UsersTables ==
    { LET base == [columns |-> <<pk, NameColumn>> \o extra]
          described == IF desc THEN Merged(base, [description |-> <<"accounts">>]) ELSE base
      IN IF ix = <<>> THEN described ELSE Merged(described, [indexes |-> ix]) :
      pk \in PkChoices,
      extra \in {q \in SeqsUpTo(ExtraColumns, MaxExtraColumns) :
                    \A i, j \in 1..Len(q) : q[i] = q[j] => i = j},
      desc \in BOOLEAN, ix \in IndexChoices }

PostsTable ==
    [columns |-> <<IdColumn,
                   KV("user_id", [type |-> "INTEGER",
                                  foreign_key |-> [table |-> "users", column |-> "id",
                                                   on_delete |-> "CASCADE"]])>>]

\* seed records: without the key, and with the key first or last
SeedRecordPool ==
    { <<KV("name", VStr("x"))>>,
      <<KV("id", VInt(1)), KV("name", VStr("y"))>>,
      <<KV("name", VStr("z")), KV("id", VInt(2))>> }

SeedChoices ==
    { <<KV("users", records)>> : records \in SeqsUpTo(SeedRecordPool, MaxSeedRecords) }
    \cup { <<KV("ghosts", << <<KV("name", VStr("x"))>> >>)>> }

ConverterDocs ==
    { LET tables == IF posts = "none" THEN <<KV("users", users)>>
                    ELSE IF posts = "after"
                    THEN <<KV("users", users), KV("posts", PostsTable)>>
                    ELSE <<KV("posts", PostsTable), KV("users", users)>>
      IN IF seed.given THEN [tables |-> tables, seed_data |-> seed.data]
         ELSE [tables |-> tables] :
      users \in UsersTables, posts \in {"none", "after", "before"},
      seed \in {[given |-> FALSE]} \cup {[given |-> TRUE, data |-> sd] : sd \in SeedChoices} }

\* the engine names a caller may pass: the three supported ones and another
EngineArgs == Engines \cup {"oracle"}

InitConvert ==
    /\ pc = "ready"
    /\ doc \in ConverterDocs
    /\ hashOrder = <<>>
    /\ result = NoResult
    /\ type_mapping = "sqlite"
    /\ engine \in EngineArgs
    /\ include_seed \in BOOLEAN
    /\ schema_files = <<>>
    /\ files = <<>>
    /\ db = EmptyDb
    /\ events = <<>>
    /\ previous = NoResult

\* what is kept of a call when the next one starts
Snapshot == [call |-> pc, result |-> result, db |-> db, events |-> events]

\* what a call of create_database_with_schema leaves in the state
Created(r) ==
    /\ result' = r.result
    /\ db' = r.db
    /\ events' = r.events
    /\ type_mapping' = r.mapping

\* what a call of sql_to_json leaves in the state
Extracted(r) ==
    /\ result' = r.result
    /\ events' = r.events

\* json_to_sql(doc, engine)
JsonToSql ==
    /\ pc = "ready"
    /\ result' = json_to_sql(doc, engine)
    /\ type_mapping' = IF engine \in Engines THEN engine ELSE type_mapping
    /\ doc' = CallerDocument(doc, engine)
    /\ pc' = "generated"
    /\ UNCHANGED <<hashOrder, engine, include_seed, schema_files, files, db, events,
                   previous>>

\* create_database_with_schema(doc, target, engine, include_seed), a first
\* time and a second time on the same target
CreateDatabaseWithSchema ==
    /\ pc \in {"ready", "created"}
    /\ Created(create_database_with_schema(doc, engine, include_seed, db, type_mapping))
    /\ previous' = IF pc = "created" THEN Snapshot ELSE previous
    /\ pc' = IF pc = "ready" THEN "created" ELSE "recreated"
    /\ UNCHANGED <<doc, hashOrder, engine, include_seed, schema_files, files>>

\* sql_to_json(target, engine) after a materialization
SqlToJson ==
    /\ pc \in {"created", "recreated"}
    /\ \E catalog_ok \in BOOLEAN : Extracted(sql_to_json(db, engine, catalog_ok))
    /\ previous' = Snapshot
    /\ pc' = "extracted"
    /\ UNCHANGED <<doc, hashOrder, type_mapping, engine, include_seed, schema_files, files,
                   db>>

NextConvert == JsonToSql \/ CreateDatabaseWithSchema \/ SqlToJson

SpecConvert == InitConvert /\ [][NextConvert]_vars

-----------------------------------------------------------------------------
(* One converter: json_to_sql, then _generate_column_sql called by itself  *)

\* documents of one table: a key column, name, and one more column
ColumnDocs ==
    { [tables |-> <<KV("users", [columns |-> <<pk, NameColumn, extra>>])>>] :
      pk \in PkChoices, extra \in ExtraColumns }

InitColumn ==
    /\ pc = "ready"
    /\ doc \in ColumnDocs
    /\ hashOrder = <<>>
    /\ result = NoResult
    /\ engine \in EngineArgs
    /\ type_mapping = "sqlite"
    /\ include_seed = FALSE
    /\ schema_files = <<>>
    /\ files = <<>>
    /\ db = EmptyDb
    /\ events = <<>>
    /\ previous = NoResult

\* _generate_column_sql(col_name, col_info, db_type) for a column of doc, on a
\* converter that is fresh or has generated text for engine before
GenerateColumnSql ==
    /\ pc \in {"ready", "generated"}
    /\ \E c \in 1..Len(doc.tables[1].val.columns), db_type \in Engines :
          result' = [raised |-> FALSE,
                     col_name |-> doc.tables[1].val.columns[c].key,
                     col_info |-> doc.tables[1].val.columns[c].val,
                     db_type |-> db_type,
                     line |-> ColumnLine(_generate_column_sql(
                                  doc.tables[1].val.columns[c].key,
                                  doc.tables[1].val.columns[c].val,
                                  db_type, type_mapping))]
    /\ previous' = Snapshot
    /\ pc' = "column"
    /\ UNCHANGED <<doc, hashOrder, type_mapping, engine, include_seed, schema_files, files,
                   db, events>>

\* the type written for a column in the text json_to_sql generates for db_type
NativeType(col_name, col_info, db_type) ==
    _generate_column_sql(col_name, col_info, db_type, db_type)[2][1]

\* the abstract type the introspector of db_type gives for a column that was
\* declared with a native type: _parse_sql_type on the declared type (line 445),
\* the data_type mapping (lines 550-566), _parse_mysql_type on the DESCRIBE
\* type (line 673)
ParsedBack(declared, db_type) ==
    CASE db_type = "sqlite" -> _parse_sql_type(declared).type
      [] db_type = "postgresql" -> PgStandardType(PgDataType(declared), declared)
      [] OTHER -> _parse_mysql_type(MysqlColumnType(declared), declared, <<>>).type

\* the type of a column of doc taken to the native type of an engine and back
RoundTripType ==
    /\ pc = "ready"
    /\ \E c \in 1..Len(doc.tables[1].val.columns), db_type \in Engines :
          result' = [raised |-> FALSE,
                     type |-> doc.tables[1].val.columns[c].val.type,
                     db_type |-> db_type,
                     native |-> NativeType(doc.tables[1].val.columns[c].key,
                                           doc.tables[1].val.columns[c].val, db_type),
                     back |-> ParsedBack(NativeType(doc.tables[1].val.columns[c].key,
                                                    doc.tables[1].val.columns[c].val,
                                                    db_type), db_type)]
    /\ previous' = Snapshot
    /\ pc' = "parsed"
    /\ UNCHANGED <<doc, hashOrder, type_mapping, engine, include_seed, schema_files, files,
                   db, events>>

NextColumn == JsonToSql \/ GenerateColumnSql \/ RoundTripType

SpecColumn == InitColumn /\ [][NextColumn]_vars

-----------------------------------------------------------------------------
(* The validator, called once on a document                                *)

InitValidate ==
    /\ pc = "ready"
    /\ doc \in ValidatorDocs
    /\ hashOrder \in HashOrders
    /\ result = NoResult
    /\ ConverterIdle

ValidateSchema ==
    /\ pc = "ready"
    /\ result' = validate_schema(doc, hashOrder)
    /\ pc' = "validated"
    /\ UNCHANGED <<doc, hashOrder>>
    /\ UNCHANGED convVars

NextValidate == ValidateSchema

SpecValidate == InitValidate /\ [][NextValidate]_vars

-----------------------------------------------------------------------------
(* Properties of the validator                                             *)

\* the tables of a document (none when the key is missing)
TablesOf(d) == GetOr(d, "tables", <<>>)

\* the names that foreign keys of d give in their "table" field without d defining them
MissingRefTables(d) ==
    {r \in TableNames \cup {Ghost} :
        /\ ~OHas(TablesOf(d), r)
        /\ \E t \in 1..Len(TablesOf(d)) : \E c \in 1..Len(FkColumns(TablesOf(d)[t].val)) :
              LET fk == FkColumns(TablesOf(d)[t].val)[c].val.foreign_key
              IN Has(fk, "table") /\ fk.table = r}

\* C1: whenever some foreign key names a table the document does not define, the
\* result is invalid and some error entry mentions that table name.  Stated for the
\* calls that return, so that a violation is a returned envelope without the entry.
FkToMissingTableReported ==
    (pc = "validated" /\ ~result.raised) =>
        \A r \in MissingRefTables(doc) :
            /\ result.is_valid = FALSE
            /\ \E i \in 1..Len(result.errors) : Mentions(result.errors[i], r)

\* C2: validate_schema raises no exception: every call returns a result envelope
\* with the seven fields.
ValidateNeverRaises ==
    pc = "validated" =>
        /\ ~result.raised
        /\ {"is_valid", "errors", "warnings", "table_count", "relationship_count",
            "index_count", "total_columns"} \subseteq DOMAIN result

\* the foreign-key references between distinct tables: <<from, to>>
FkEdges(d) ==
    {e \in (TableNames \cup {Ghost}) \X (TableNames \cup {Ghost}) :
        /\ e[1] # e[2]
        /\ OHas(TablesOf(d), e[1])
        /\ \E c \in 1..Len(FkColumns(OGet(TablesOf(d), e[1]))) :
              LET fk == FkColumns(OGet(TablesOf(d), e[1]))[c].val.foreign_key
              IN Has(fk, "table") /\ fk.table = e[2]}

RECURSIVE ReachableIn(_, _, _)
\* the nodes reachable from the set S of nodes by one to k edges of E
ReachableIn(S, E, k) ==
    IF k = 0 THEN {}
    ELSE LET step == {e[2] : e \in {x \in E : x[1] \in S}}
         IN step \cup ReachableIn(step, E, k - 1)

\* the tables of d that lie on a cycle of foreign-key references
OnCycle(d) ==
    {n \in OKeys(TablesOf(d)) : n \in ReachableIn({n}, FkEdges(d), Len(TablesOf(d)))}

IsCircularError(msg) == msg[1] = "Circular dependency detected involving table"

CircularErrors(res) ==
    IF res.raised THEN {}
    ELSE {res.errors[i][2] : i \in {j \in 1..Len(res.errors) : IsCircularError(res.errors[j])}}

\* C3: the errors contain a circular-dependency error exactly when the graph of
\* foreign-key references between distinct tables has a cycle.
CycleErrorIffCycle ==
    pc = "validated" => ((CircularErrors(result) # {}) <=> (OnCycle(doc) # {}))

\* The same for the calls that return an envelope (no foreign key lacks "table").
CycleErrorIffCycleWhenReturned ==
    (pc = "validated" /\ ~result.raised) =>
        ((CircularErrors(result) # {}) <=> (OnCycle(doc) # {}))

-----------------------------------------------------------------------------
(* merge_schemas                                                           *)

IsAdminLocation(file_path) == Contains(lower(file_path), Admin)

\* the tables of the document a location holds
FileTables(file_path) == GetOr(files[file_path].schema, "tables", <<>>)

\* the state is after a merge of two distinct existing files, exactly one of
\* them at an admin location, that define table t differently
AdminConflict(t) ==
    /\ pc = "merged"
    /\ Len(schema_files) = 2
    /\ \A i \in 1..2 : schema_files[i] \in DOMAIN files /\ files[schema_files[i]].exists
    /\ schema_files[1] # schema_files[2]
    /\ IsAdminLocation(schema_files[1]) # IsAdminLocation(schema_files[2])
    /\ \A i \in 1..2 : OHas(FileTables(schema_files[i]), t)
    /\ OGet(FileTables(schema_files[1]), t) # OGet(FileTables(schema_files[2]), t)

AdminFile == IF IsAdminLocation(schema_files[1]) THEN schema_files[1] ELSE schema_files[2]

\* C4: when two existing files define the same table differently and exactly
\* one of them is at a location containing "admin" (in any letter case), the
\* merged document holds the admin file's definition of the table, for the
\* list as given and for the list in the opposite order.
AdminDefinitionWins ==
    \A t \in {"users", "posts"} :
        AdminConflict(t) =>
            /\ OGet(result.schema.tables, t) = OGet(FileTables(AdminFile), t)
            /\ OGet(merge_schemas(<<schema_files[2], schema_files[1]>>, files).tables, t)
                   = OGet(FileTables(AdminFile), t)

\* the admin file is listed last, at a location spelled with capitals, and has overridden
AdminListedLastOverrides ==
    /\ AdminConflict("users")
    /\ AdminFile = schema_files[2]
    /\ lower(AdminFile) # AdminFile
    /\ OGet(result.schema.tables, "users") = OGet(FileTables(schema_files[2]), "users")
    /\ OGet(result.schema.tables, "users") # OGet(FileTables(schema_files[1]), "users")

-----------------------------------------------------------------------------
(* Materialization and extraction                                          *)

\* the validator accepts the document
IsValidDoc ==
    LET r == validate_schema(doc, NameOrder) IN ~r.raised /\ r.is_valid

RoundTripTypes ==
    {"INTEGER", "TEXT", "VARCHAR(255)", "VARCHAR(50)", "BOOLEAN", "DATE", "DATETIME"}

UsesRoundTripTypes(d) ==
    \A t \in 1..Len(TablesOf(d)) :
        \A c \in 1..Len(TablesOf(d)[t].val.columns) :
            TablesOf(d)[t].val.columns[c].val.type \in RoundTripTypes

SameValue(a, b) == a.t = b.t /\ a.v = b.v

\* two column definitions with the same keys and the same value under each
SameColumn(a, b) ==
    /\ DOMAIN a = DOMAIN b
    /\ \A k \in DOMAIN a :
          IF k = "default" THEN SameValue(a[k], b[k]) ELSE a[k] = b[k]

\* two table definitions equal up to the order of their keys and columns
SameTable(a, b) ==
    /\ DOMAIN a = DOMAIN b
    /\ OKeys(a.columns) = OKeys(b.columns)
    /\ \A c \in OKeys(a.columns) : SameColumn(OGet(a.columns, c), OGet(b.columns, c))
    /\ \A k \in DOMAIN a \ {"columns"} : a[k] = b[k]

\* two documents equal up to the order of their keys
SameDocument(a, b) ==
    /\ DOMAIN a = DOMAIN b
    /\ OKeys(a.tables) = OKeys(b.tables)
    /\ \A t \in OKeys(a.tables) : SameTable(OGet(a.tables, t), OGet(b.tables, t))
    /\ \A k \in DOMAIN a \ {"tables"} : a[k] = b[k]

\* C5: for a document whose columns use only INTEGER, TEXT, VARCHAR(n),
\* BOOLEAN, DATE and DATETIME, on each engine, extracting the schema of the
\* database that was materialized from the document gives the document back,
\* up to key order.
ExtractGivesDocumentBack ==
    ( /\ pc = "extracted"
      /\ engine \in Engines
      /\ UsesRoundTripTypes(doc)
      /\ ~previous.result.raised
      /\ ~result.raised )
    => SameDocument(result.schema, doc)

\* the names in the catalog
CatalogNames(d) ==
    [tables |-> OKeys(d.tables),
     indexes |-> {d.indexes[i].name : i \in 1..Len(d.indexes)}]

\* C6: materializing the same document twice on a target that was empty at
\* first succeeds both times and leaves the same tables and indexes after
\* the second run as after the first.
MaterializeTwiceSucceeds ==
    (pc = "recreated" /\ engine \in Engines /\ IsValidDoc)
    => /\ ~previous.result.raised
       /\ ~result.raised
       /\ CatalogNames(db) = CatalogNames(previous.db)

\* the statements of the generated text in generation order: one per table,
\* one per index, one per processed seed record
GeneratedStatements(schema, db_type) ==
    LET tables == GetOr(schema, "tables", <<>>)
        index_lines == IndexSection(tables)
        seed_lines == SeedSection(schema, tables)
    IN [t \in 1..Len(tables) |->
            StmtAtoms(CreateTableLines(tables[t].key, tables[t].val, db_type, db_type))]
       \o [i \in 1..(Len(index_lines) - 2) |-> StmtAtoms(<<index_lines[i + 2]>>)]
       \o [i \in 1..(Len(seed_lines) - 2) |-> StmtAtoms(<<seed_lines[i + 2]>>)]

\* the statements of the generated text that the call executed, in order
ExecutedStatements(log) ==
    LET ddl == SelectSeq(log, LAMBDA e : e.op = "execute" /\ e.phase = "ddl")
    IN [i \in 1..Len(ddl) |-> StmtAtoms(ddl[i].stmt)]

\* C7: on each engine the materializer executes every CREATE TABLE, CREATE
\* INDEX and INSERT statement of the generated text exactly once, in
\* generation order; a comment line before a statement does not make the
\* statement be skipped.
EveryStatementExecutedOnce ==
    (pc = "created" /\ engine \in Engines /\ IsValidDoc)
    => ExecutedStatements(events) = GeneratedStatements(doc, engine)

\* the lines that follow the seed section's comment in a generated text
SeedLines(text) ==
    LET k == CHOOSE i \in 1..Len(text) : text[i] = <<"--", "===== SEED DATA =====">>
    IN SubSeq(text, k + 1, Len(text))

\* all records of a seed_data mapping, in order
SeedRecordsOf(schema) ==
    Concat([s \in 1..Len(schema.seed_data) |-> schema.seed_data[s].val])

\* the column list of an insert line
InsertColumns(line) ==
    LET a == StmtAtoms(<<line>>)
        columns == SplitComma(SubSeq(a, 4, IndexOf(a, ") VALUES (") - 1), <<>>, <<>>)
    IN [i \in 1..Len(columns) |-> columns[i][1]]

\* C8: json_to_sql emits one insert per seed record, in the target engine's
\* conflict-ignoring form (INSERT OR IGNORE for sqlite, INSERT ... ON CONFLICT
\* DO NOTHING for postgresql, INSERT IGNORE for mysql), the columns in the
\* record's key order.
InsertsInEngineForm ==
    (pc = "generated" /\ engine \in Engines /\ ~result.raised /\ Has(doc, "seed_data"))
    => LET lines == SeedLines(result.text)
           records == SeedRecordsOf(doc)
       IN /\ Len(lines) = Len(records)
          /\ \A i \in 1..Len(lines) :
                /\ engine = "sqlite" => lines[i][1] = "INSERT OR IGNORE INTO "
                /\ engine = "postgresql" =>
                      /\ lines[i][1] = "INSERT INTO "
                      /\ HasPart(lines[i], " ON CONFLICT DO NOTHING")
                /\ engine = "mysql" => lines[i][1] = "INSERT IGNORE INTO "
                /\ SubSeq(InsertColumns(lines[i]), 1, Len(records[i]))
                      = [c \in 1..Len(records[i]) |-> records[i][c].key]


\* two seed records with the same columns in the same order and the same values
SameRecord(a, b) ==
    /\ Len(a) = Len(b)
    /\ \A i \in 1..Len(a) : a[i].key = b[i].key /\ SameValue(a[i].val, b[i].val)

\* how many seed records precede those of the s-th seed table
RecordsBefore(schema, s) == SumSeq([r \in 1..(s - 1) |-> Len(schema.seed_data[r].val)])

\* the seed tables of the document that the document defines
DefinedSeedTables(schema) ==
    {s \in 1..Len(schema.seed_data) : OHas(TablesOf(schema), schema.seed_data[s].key)}

\* the definition of the table's first primary_key column, <<>> without one
KeyColumnOf(table_info) ==
    LET columns == GetOr(table_info, "columns", <<>>)
    IN IF PrimaryKeyColumn(columns) = "" THEN <<>>
       ELSE OGet(columns, PrimaryKeyColumn(columns))

IntegerKey(col_info) == Has(col_info, "type") /\ col_info.type = "INTEGER"

AutoIncrementIntegerKey(col_info) == IntegerKey(col_info) /\ Truthy(col_info, "auto_increment")

\* every emitted record of a defined seed table is the record itself, or, when
\* the record omits the key of a table whose key column qualifies, the record
\* followed by the key with the record's 1-based position
SeedKeyRule(auto_only) ==
    (pc = "generated" /\ ~result.raised /\ Has(doc, "seed_data"))
    => \A s \in DefinedSeedTables(doc) :
          LET table_info == OGet(TablesOf(doc), doc.seed_data[s].key)
              key == PrimaryKeyColumn(GetOr(table_info, "columns", <<>>))
              records == doc.seed_data[s].val
          IN \A i \in 1..Len(records) :
                LET emitted == InsertRecord(
                                  <<SeedLines(result.text)[RecordsBefore(doc, s) + i]>>)
                IN IF key # "" /\ IntegerKey(KeyColumnOf(table_info))
                      /\ (auto_only => Truthy(KeyColumnOf(table_info), "auto_increment"))
                      /\ ~OHas(records[i], key)
                   THEN SameRecord(emitted, records[i] \o <<KV(key, VInt(i))>>)
                   ELSE SameRecord(emitted, records[i])

\* C9: in json_to_sql, a record of a seed table that the document defines gets
\* a generated key exactly when the record omits the table's first primary_key
\* column and that column has type INTEGER, whether or not it is marked
\* auto_increment; the value is the record's 1-based position in the table's
\* list; every other record is emitted with exactly its own columns.
SeedKeyForIntegerKey == SeedKeyRule(FALSE)

\* C9 as stated: a key is generated only when the INTEGER primary key is also
\* marked auto_increment.
SeedKeyForAutoIncrementOnly == SeedKeyRule(TRUE)

\* a key was generated for a record of a table whose INTEGER key is not auto_increment
KeyGeneratedWithoutAutoIncrement ==
    /\ pc = "generated" /\ ~result.raised /\ Has(doc, "seed_data")
    /\ \E s \in DefinedSeedTables(doc) :
          LET table_info == OGet(TablesOf(doc), doc.seed_data[s].key)
          IN /\ IntegerKey(KeyColumnOf(table_info))
             /\ ~AutoIncrementIntegerKey(KeyColumnOf(table_info))
             /\ Len(doc.seed_data[s].val) = 2
             /\ ~OHas(doc.seed_data[s].val[2], "id")
             /\ OHas(InsertRecord(<<SeedLines(result.text)[RecordsBefore(doc, s) + 2]>>), "id")
             /\ OGet(InsertRecord(<<SeedLines(result.text)[RecordsBefore(doc, s) + 2]>>),
                     "id").v = 2

\* the executions of an insert in a log, from the generated text or the seed pass
InsertExecutions(log) ==
    SelectSeq(log, LAMBDA e : /\ e.op = "execute"
                              /\ \/ e.phase = "seed"
                                 \/ StmtKind(e.stmt) = "insert")

\* C10: seed insertion by create_database_with_schema is optional: without
\* include_seed_data no insert of a seed record is executed on the target,
\* and with it each seed record is inserted once.
SeedInsertedOnlyOnRequest ==
    (pc = "created" /\ engine \in Engines /\ IsValidDoc)
    => LET inserts == InsertExecutions(events)
       IN /\ ~include_seed => inserts = <<>>
          /\ include_seed /\ Has(doc, "seed_data")
                => Len(inserts) = Len(SeedRecordsOf(doc))

-----------------------------------------------------------------------------
(* The seed pass of the materializer                                       *)

\* the inserts of the seed pass into one table, in execution order
SeedPassInserts(log, table_name) ==
    SelectSeq(log, LAMBDA e : e.op = "execute" /\ e.phase = "seed" /\ e.table = table_name)

\* C11: the seed pass of the materializer applies the id rule of json_to_sql:
\* a seed record that omits its table's auto_increment INTEGER primary key is
\* inserted with its 1-based position in the table's list as the key value.
SeedPassAssignsKeys ==
    (pc = "created" /\ engine \in Engines /\ include_seed /\ Has(doc, "seed_data"))
    => \A s \in DefinedSeedTables(doc) :
          LET table_info == OGet(TablesOf(doc), doc.seed_data[s].key)
              key == PrimaryKeyColumn(GetOr(table_info, "columns", <<>>))
              records == doc.seed_data[s].val
              inserts == SeedPassInserts(events, doc.seed_data[s].key)
          IN \A i \in 1..Len(inserts) :
                (/\ key # ""
                 /\ AutoIncrementIntegerKey(KeyColumnOf(table_info))
                 /\ ~OHas(records[i], key))
                => /\ OHas(inserts[i].record, key)
                   /\ SameValue(OGet(inserts[i].record, key), VInt(i))

\* the seed tables of the document that the document does not define
UndefinedSeedTables(schema) ==
    {schema.seed_data[s].key : s \in 1..Len(schema.seed_data)} \ OKeys(TablesOf(schema))

\* the document has seed data for a table it does not define and is valid otherwise
ValidButForSeedTables ==
    /\ Has(doc, "seed_data")
    /\ UndefinedSeedTables(doc) # {}
    /\ LET r == validate_schema([tables |-> doc.tables], NameOrder)
       IN ~r.raised /\ r.is_valid

\* C12: seed data for a table that neither the document defines nor the
\* database holds is skipped with a warning: the call raises nothing and
\* returns success, with the document's tables created.
UndefinedSeedTableSkipped ==
    (pc = "created" /\ engine \in Engines /\ ValidButForSeedTables)
    => /\ ~result.raised
       /\ result.success
       /\ OKeys(TablesOf(doc)) \subseteq OKeys(db.tables)
       /\ include_seed =>
             \A t \in UndefinedSeedTables(doc) :
                 /\ SeedPassInserts(events, t) = <<>>
                 /\ \E w \in 1..Len(result.warnings) : Mentions(result.warnings[w], t)

\* an insert of the seed pass failed
SeedInsertFailed(log) ==
    \E i \in 1..Len(log) : log[i].op = "execute" /\ log[i].phase = "seed" /\ ~log[i].ok

\* the schema statements of the generated text that the call executed with success
SchemaStatementsDone(log) ==
    SelectSeq(log, LAMBDA e : /\ e.op = "execute" /\ e.phase = "ddl" /\ e.ok
                              /\ StmtKind(e.stmt) \in {"table", "index"})

\* C13: on every engine a failing seed insert is caught and reported as a
\* warning: the call returns success, and the tables and indexes created
\* before it are kept.
SeedFailureIsWarning ==
    (pc = "created" /\ engine \in Engines /\ SeedInsertFailed(events))
    => /\ ~result.raised
       /\ result.success
       /\ result.warnings # <<>>
       /\ \A i \in 1..Len(SchemaStatementsDone(events)) :
             LET stmt == SchemaStatementsDone(events)[i].stmt
             IN IF StmtKind(stmt) = "table" THEN OHas(db.tables, StmtTarget(stmt))
                ELSE \E x \in 1..Len(db.indexes) : db.indexes[x].name = StmtTarget(stmt)

-----------------------------------------------------------------------------
(* Commit and rollback                                                     *)

\* the positions in a log of the executions of statements of the generated text
DdlPositions(log) == {i \in 1..Len(log) : log[i].op = "execute" /\ log[i].phase = "ddl"}

\* the position of the execution that raised, 0 when none did
FailedPosition(log) ==
    IF \E i \in 1..Len(log) : log[i].op = "execute" /\ ~log[i].ok
    THEN CHOOSE i \in 1..Len(log) : log[i].op = "execute" /\ ~log[i].ok
    ELSE 0

\* the database after the statements, each executed with success, from d on
RECURSIVE Replay(_, _, _)
Replay(d, statements, eng) ==
    IF statements = <<>> THEN d
    ELSE Replay(Execute(d, Head(statements), eng).db, Tail(statements), eng)

\* the statements of the generated text that a log shows executed with success
StatementsDone(log) ==
    LET done == SelectSeq(log, LAMBDA e : e.op = "execute" /\ e.phase = "ddl" /\ e.ok)
    IN [i \in 1..Len(done) |-> done[i].stmt]

\* C14: the SQLite handler commits after every statement it executed with
\* success, before the next one starts; when statement k raises, the
\* connection is rolled back, the error reaches the caller, no later
\* statement is executed, and the database holds the effects of statements
\* 1..k-1.
SqliteCommitsEachStatement ==
    (pc = "created" /\ engine = "sqlite")
    => /\ \A i \in DdlPositions(events) :
             events[i].ok => (i < Len(events) /\ events[i + 1] = Ev("commit"))
       /\ LET k == FailedPosition(events)
          IN (k # 0 /\ events[k].phase = "ddl")
             => /\ result.raised
                /\ SubSeq(events, k + 1, Len(events)) = <<Ev("rollback"), Ev("close")>>
                /\ ExecutedStatements(events)
                     = SubSeq(GeneratedStatements(doc, "sqlite"), 1,
                              Cardinality(DdlPositions(events)))
                /\ db = Replay(EmptyDb, StatementsDone(events), "sqlite")

\* a statement raised after a table had been created, and the table is still there
SqliteFailedAfterProgress ==
    /\ pc = "created" /\ engine = "sqlite"
    /\ FailedPosition(events) # 0
    /\ events[FailedPosition(events)].phase = "ddl"
    /\ Len(StatementsDone(events)) >= 1
    /\ db.tables # <<>>

\* the positions in a log of conn.commit()
CommitPositions(log) == {i \in 1..Len(log) : log[i] = Ev("commit")}

\* what the PostgreSQL and MySQL handlers do with the transaction: one commit,
\* after every execution of the call, when none of them raised; otherwise a
\* rollback, no commit, and the error for the caller
ServerCommitDiscipline ==
    (pc = "created" /\ engine \in {"postgresql", "mysql"} /\ events # <<>>)
    => IF FailedPosition(events) # 0
       THEN /\ result.raised
            /\ CommitPositions(events) = {}
            /\ \E i \in (FailedPosition(events) + 1)..Len(events) : events[i] = Ev("rollback")
       ELSE /\ ~result.raised
            /\ Cardinality(CommitPositions(events)) = 1
            /\ \A i \in 1..Len(events) : \A j \in CommitPositions(events) :
                  events[i].op = "execute" => i < j

\* C15: the PostgreSQL and MySQL handlers commit exactly once, and only after
\* every statement of the generated text and every requested seed insert was
\* executed with success; when an execution raises, they roll back, commit
\* nothing and let the error reach the caller.
ServerCommitsOnceAfterAll ==
    /\ ServerCommitDiscipline
    /\ (pc = "created" /\ engine \in {"postgresql", "mysql"}
        /\ CommitPositions(events) # {})
       => /\ ExecutedStatements(events) = GeneratedStatements(doc, engine)
          /\ (include_seed /\ Has(doc, "seed_data"))
                => Len(SelectSeq(events, LAMBDA e : e.op = "execute" /\ e.phase = "seed"))
                     = Len(SeedRecordsOf(doc))

-----------------------------------------------------------------------------
(* Unsupported engines                                                     *)

\* C16: json_to_sql, sql_to_json and create_database_with_schema called with
\* an engine name other than sqlite, postgresql and mysql fail with the
\* unsupported-engine error: no text is produced, no connection is opened,
\* the target is untouched and the converter's type mapping stays as it was.
UnsupportedEngineFailsFast ==
    (pc \in {"generated", "created", "recreated", "extracted"} /\ engine \notin Engines)
    => /\ result = Raise("ValueError")
       /\ events = <<>>
       /\ db = EmptyDb
       /\ type_mapping = "sqlite"

\* each of the three calls has failed on an unsupported engine
UnsupportedEngineRefused ==
    /\ engine \notin Engines
    /\ pc = "extracted"
    /\ previous.call \in {"created", "recreated"}
    /\ previous.result = Raise("ValueError")
    /\ result = Raise("ValueError")

-----------------------------------------------------------------------------
(* Column lines of the generated text                                      *)

\* the CREATE TABLE statement of a table in a generated text
TableStatement(text, table_name) ==
    LET statements == SplitLines(text, <<>>, <<>>)
    IN statements[CHOOSE i \in 1..Len(statements) :
                     StmtKind(statements[i]) = "table"
                     /\ StmtTarget(statements[i]) = table_name]

\* the line of the c-th column of a table in a generated text, without the
\* indentation and the separating comma
ColumnLineOf(text, table_name, c) == DefLines(TableStatement(text, table_name))[c]

ConstraintKeywords ==
    {"PRIMARY KEY", "AUTOINCREMENT", "AUTO_INCREMENT", "NOT NULL", "UNIQUE", "DEFAULT",
     "CHECK ("}

\* the constraint keywords of a column line, in the order they stand in it
KeywordsOf(line) == SelectSeq(line, LAMBDA part : part \in ConstraintKeywords)

\* the constraint keywords a SQLite column line must carry, in order
SqliteKeywords(col_info) ==
    (IF Truthy(col_info, "primary_key")
     THEN IF Truthy(col_info, "auto_increment")
          THEN <<"PRIMARY KEY", "AUTOINCREMENT">> ELSE <<"PRIMARY KEY">>
     ELSE <<>>)
    \o (IF Has(col_info, "nullable") /\ ~col_info.nullable THEN <<"NOT NULL">> ELSE <<>>)
    \o (IF Truthy(col_info, "unique") THEN <<"UNIQUE">> ELSE <<>>)
    \o (IF Has(col_info, "default") THEN <<"DEFAULT">> ELSE <<>>)
    \o (IF col_info.type = "ENUM" /\ Has(col_info, "values") THEN <<"CHECK (">> ELSE <<>>)

\* the type token of a SQLite column line
SqliteTypeToken(col_type) == IF col_type \in {"ENUM", "JSON"} THEN "TEXT" ELSE col_type

\* the parts of a line before its DEFAULT or CHECK clause
BeforeClauses(line) ==
    LET at == {i \in 1..Len(line) : line[i] \in {"DEFAULT", "CHECK ("}}
    IN IF at = {} THEN line
       ELSE SubSeq(line, 1, (CHOOSE i \in at : \A j \in at : i <= j) - 1)

QuotedValues(values) ==
    Concat([i \in 1..Len(values) |->
              (IF i > 1 THEN <<", ">> ELSE <<>>) \o <<"'", values[i], "'">>])

\* the last n parts of a line
Suffix(line, n) == SubSeq(line, Len(line) - n + 1, Len(line))

\* the ENUM columns of the document with a non-empty values list, as pairs
\* of table and column position
EnumColumns(schema) ==
    {tc \in UNION {{<<t, c>> : c \in 1..Len(schema.tables[t].val.columns)} :
                      t \in 1..Len(schema.tables)} :
        /\ schema.tables[tc[1]].val.columns[tc[2]].val.type = "ENUM"
        /\ Has(schema.tables[tc[1]].val.columns[tc[2]].val, "values")
        /\ schema.tables[tc[1]].val.columns[tc[2]].val.values # <<>>}

\* C18: the line of an ENUM column with a non-empty values list has, for
\* sqlite and postgresql, a text type and at its end, after any DEFAULT, the
\* clause CHECK (<column> IN (<quoted values in list order>)); for mysql its
\* type is ENUM(<quoted values in list order>) and it has no CHECK clause.
EnumColumnLine ==
    (pc = "generated" /\ engine \in Engines /\ ~result.raised)
    => \A tc \in EnumColumns(doc) :
          LET column == doc.tables[tc[1]].val.columns[tc[2]]
              line == ColumnLineOf(result.text, doc.tables[tc[1]].key, tc[2])
              list == QuotedValues(column.val.values)
              check == <<"CHECK (", column.key, " IN (">> \o list \o <<"))">>
          IN IF engine = "mysql"
             THEN /\ SubSeq(line, 2, Len(list) + 3) = <<"ENUM(">> \o list \o <<")">>
                  /\ ~HasPart(line, "CHECK (")
             ELSE /\ line[2] = "TEXT"
                  /\ Len(line) >= Len(check) + 2
                  /\ Suffix(line, Len(check)) = check
                  /\ ~HasPart(SubSeq(line, 1, Len(line) - Len(check)), "CHECK (")

\* a text for mysql holds an ENUM column with a default
MysqlEnumLine ==
    /\ pc = "generated" /\ engine = "mysql" /\ ~result.raised
    /\ \E tc \in EnumColumns(doc) :
          LET line == ColumnLineOf(result.text, doc.tables[tc[1]].key, tc[2])
          IN line[2] = "ENUM(" /\ HasPart(line, "DEFAULT")

-----------------------------------------------------------------------------
(* merge_schemas: tables and relationships                                 *)

\* the files of a list that exist, in list order
ExistingSources(all_files) ==
    SelectSeq(all_files, LAMBDA f : f \in DOMAIN files /\ files[f].exists)

\* the table names the existing files of a list define
SourceTableNames(all_files) ==
    UNION {OKeys(FileTables(ExistingSources(all_files)[i])) :
              i \in 1..Len(ExistingSources(all_files))}

\* the definition of table t in the first file of the list that defines it
FirstDefinition(all_files, t) ==
    LET defining == SelectSeq(ExistingSources(all_files),
                              LAMBDA f : OHas(FileTables(f), t))
    IN OGet(FileTables(defining[1]), t)

\* merged is what the claim allows for the sources all_files
UnionFirstWins(merged, all_files) ==
    /\ OKeys(merged.tables) = SourceTableNames(all_files)
    /\ (\A i \in 1..Len(all_files) : ~IsAdminLocation(all_files[i]))
          => \A t \in SourceTableNames(all_files) :
                OGet(merged.tables, t) = FirstDefinition(all_files, t)

\* C19: the table names of the merged document are the union of the table
\* names of the existing source files, and when no source location contains
\* "admin" each table has the definition of the first source in list order
\* that defines it.  A pattern stands for the files it expands to.
MergedTablesUnionFirstWins ==
    pc = "merged"
    => \E all_files \in Expansions(schema_files, files) :
          UnionFirstWins(result.schema, all_files)

\* two files without "admin" in their locations defined users differently,
\* and the merged document has the definition of the one listed first
FirstOfTwoDefinitionsKept ==
    /\ pc = "merged"
    /\ Len(schema_files) = 2
    /\ \A i \in 1..2 : /\ schema_files[i] \in DOMAIN files
                       /\ files[schema_files[i]].exists
                       /\ ~IsAdminLocation(schema_files[i])
                       /\ OHas(FileTables(schema_files[i]), "users")
    /\ OGet(FileTables(schema_files[1]), "users") # OGet(FileTables(schema_files[2]), "users")
    /\ OGet(result.schema.tables, "users") = OGet(FileTables(schema_files[1]), "users")
    /\ OHas(result.schema.tables, "posts")

\* the relationships of the existing files of a list, one after the other
SourceRelationships(all_files) ==
    Concat([i \in 1..Len(ExistingSources(all_files)) |->
              GetOr(files[ExistingSources(all_files)[i]].schema, "relationships", <<>>)])

\* the first position of a record in a list
FirstAt(list, rel) == CHOOSE i \in 1..Len(list) : list[i] = rel /\ \A j \in 1..(i - 1) : list[j] # rel

\* merged holds each record of the sources once, in order of first occurrence
EachOnceInFirstOrder(merged, sources) ==
    /\ \A i, j \in 1..Len(merged) : merged[i] = merged[j] => i = j
    /\ {merged[i] : i \in 1..Len(merged)} = {sources[i] : i \in 1..Len(sources)}
    /\ \A i, j \in 1..Len(merged) :
          i < j => FirstAt(sources, merged[i]) < FirstAt(sources, merged[j])

\* C20: the relationships of the merged document are the relationship
\* records of the existing sources, each exactly once by structural equality
\* and in order of first occurrence, also when a file is listed twice.
RelationshipsMergedOnce ==
    pc = "merged"
    => \E all_files \in Expansions(schema_files, files) :
          EachOnceInFirstOrder(result.schema.relationships, SourceRelationships(all_files))

\* the same existing file was listed twice and its two relationships are there once each
FileListedTwiceMergedOnce ==
    /\ pc = "merged"
    /\ Len(schema_files) = 2
    /\ schema_files[1] = schema_files[2]
    /\ schema_files[1] \in DOMAIN files
    /\ files[schema_files[1]].exists
    /\ GetOr(files[schema_files[1]].schema, "relationships", <<>>) = <<Rel1, Rel2>>
    /\ result.schema.relationships = <<Rel1, Rel2>>

-----------------------------------------------------------------------------
(* The validator: documents without tables, primary keys, cycles           *)

MissingTablesError == <<"Missing 'tables' section - schema must contain tables">>

\* C21: when the document has no tables key, validate_schema returns an
\* envelope with is_valid False whose only error is the missing-tables error,
\* and table_count, index_count and total_columns are 0.
MissingTablesShortCircuits ==
    (pc = "validated" /\ ~Has(doc, "tables")) =>
        /\ ~result.raised
        /\ result.is_valid = FALSE
        /\ result.errors = <<MissingTablesError>>
        /\ result.table_count = 0
        /\ result.index_count = 0
        /\ result.total_columns = 0

\* a document without tables was validated whose relationships and seed data
\* name tables that no document section defines
UncheckedSectionsWithoutTables ==
    /\ pc = "validated"
    /\ ~Has(doc, "tables")
    /\ Has(doc, "relationships")
    /\ Has(doc, "seed_data")
    /\ _validate_relationships(doc.relationships, <<>>).errors # <<>>
    /\ _validate_seed_data(doc.seed_data, <<>>) # <<>>
    /\ result.errors = <<MissingTablesError>>

\* the tables of d with a non-empty columns mapping, as positions
TablesWithColumns(d) ==
    {t \in 1..Len(TablesOf(d)) :
        /\ Has(TablesOf(d)[t].val, "columns")
        /\ Len(TablesOf(d)[t].val.columns) > 0}

\* the number of columns of a table that have primary_key set
PrimaryKeys(table_info) ==
    Cardinality({c \in 1..Len(table_info.columns) :
                    Truthy(table_info.columns[c].val, "primary_key")})

\* how often msg occurs in a list of messages
Occurrences(msgs, msg) == Cardinality({i \in 1..Len(msgs) : msgs[i] = msg})

\* the primary-key findings of res are those the numbers of primary keys of d call for
PrimaryKeyFindings(d, res) ==
    /\ \A t \in TablesWithColumns(d) :
          LET table_name == TablesOf(d)[t].key
              n == PrimaryKeys(TablesOf(d)[t].val)
          IN /\ Occurrences(res.warnings, <<"Table", table_name, "No primary key defined">>)
                   = IF n = 0 THEN 1 ELSE 0
             /\ Occurrences(res.errors, <<"Table", table_name, "Multiple primary keys defined">>)
                   = IF n > 1 THEN 1 ELSE 0
    /\ res.errors = <<>> => res.is_valid = TRUE

\* C22: for each table with a non-empty columns mapping the result holds one
\* no-primary-key warning and no primary-key error when no column has
\* primary_key set, one multiple-primary-keys error when more than one has it,
\* and neither when exactly one has it; without errors the result is valid.
\* A call that raises returns no warning and no error.
PrimaryKeyCardinality ==
    pc = "validated" =>
        IF result.raised
        THEN \A t \in TablesWithColumns(doc) : PrimaryKeys(TablesOf(doc)[t].val) = 1
        ELSE PrimaryKeyFindings(doc, result)

\* The same for the calls that return an envelope (no foreign key lacks "table").
PrimaryKeyCardinalityWhenReturned ==
    (pc = "validated" /\ ~result.raised) => PrimaryKeyFindings(doc, result)

\* a document whose only finding is a missing primary key was reported valid
ValidWithoutPrimaryKey ==
    /\ pc = "validated"
    /\ ~result.raised
    /\ \E t \in TablesWithColumns(doc) : PrimaryKeys(TablesOf(doc)[t].val) = 0
    /\ result.errors = <<>>
    /\ result.is_valid = TRUE

\* the tables of d from which a cycle of foreign-key references can be reached
ReachesCycle(d) ==
    {n \in OKeys(TablesOf(d)) :
        \E m \in {n} \cup ReachableIn({n}, FkEdges(d), Len(TablesOf(d))) : m \in OnCycle(d)}

CircularError(table_name) == <<"Circular dependency detected involving table", table_name>>

\* C26: for every table from which a foreign-key cycle between distinct tables
\* is reachable the errors hold exactly one circular-dependency error naming
\* it, and no such error names any other table, whatever the order of the
\* tables and of the iteration of sets.  Stated for the calls that return.
CycleErrorPerReachingTable ==
    (pc = "validated" /\ ~result.raised) =>
        \A n \in OKeys(TablesOf(doc)) :
            Occurrences(result.errors, CircularError(n))
                = IF n \in ReachesCycle(doc) THEN 1 ELSE 0

\* No circular-dependency error names a table from which no cycle is reachable,
\* and none is given twice.
CycleErrorsOnlyForReachingTables ==
    (pc = "validated" /\ ~result.raised) =>
        \A n \in OKeys(TablesOf(doc)) :
            /\ Occurrences(result.errors, CircularError(n)) <= 1
            /\ n \notin ReachesCycle(doc) => Occurrences(result.errors, CircularError(n)) = 0

-----------------------------------------------------------------------------
(* The validator as a gate for generation                                  *)

\* C30: for every document that validate_schema reports is_valid True,
\* json_to_sql completes without raising for each supported engine.
ValidGeneratesWithoutRaising ==
    (pc = "validated" /\ ~result.raised /\ result.is_valid) =>
        \A db_type \in Engines : ~json_to_sql(doc, db_type).raised

\* On a valid document generation reads no missing columns, type, foreign_key
\* table or column, or index name or columns field.
ValidHasEveryFieldGenerationReads ==
    (pc = "validated" /\ ~result.raised /\ result.is_valid) => ~JsonToSqlRaises(doc)

\* a document with indexes and an object as database section was reported valid
ValidIndexedDocument ==
    /\ pc = "validated"
    /\ ~result.raised
    /\ result.is_valid
    /\ Has(doc, "database")
    /\ \E t \in 1..Len(TablesOf(doc)) : Has(TablesOf(doc)[t].val, "indexes")
    /\ \A db_type \in Engines : ~json_to_sql(doc, db_type).raised

-----------------------------------------------------------------------------
(* State of the converter that crosses calls                               *)

\* the line a fresh converter gives (line 64: its mapping is sqlite's)
FreshColumnLine(col_name, col_info, db_type) ==
    ColumnLine(_generate_column_sql(col_name, col_info, db_type, "sqlite"))

\* C23: the line _generate_column_sql gives for a column and an engine is the
\* one a fresh converter gives, whatever was called on the converter before.
ColumnLineAsOnFreshConverter ==
    pc = "column" =>
        result.line = FreshColumnLine(result.col_name, result.col_info, result.db_type)

\* On a converter on which nothing was called the line is that of a fresh one.
ColumnLineOfFreshConverter ==
    (pc = "column" /\ previous.call = "ready") =>
        result.line = FreshColumnLine(result.col_name, result.col_info, result.db_type)

-----------------------------------------------------------------------------
(* Connections                                                             *)

\* the positions of an operation in a log
PositionsOf(log, op) == {i \in 1..Len(log) : log[i] = Ev(op)}

\* a log in which every connection that was opened was closed at the end
OpenedAndClosed(log) ==
    \/ log = <<>>
    \/ /\ PositionsOf(log, "connect") = {1}
       /\ PositionsOf(log, "close") = {Len(log)}

\* C24: every connection opened by sql_to_json or create_database_with_schema
\* is closed before the call returns or raises.
ConnectionsClosed ==
    pc \in {"created", "recreated", "extracted"} => OpenedAndClosed(events)

\* a materialization raised after a statement failed on its connection
ClosedAfterFailedStatement ==
    /\ pc = "created"
    /\ result.raised
    /\ \E i \in 1..Len(events) : events[i].op = "execute" /\ ~events[i].ok
    /\ events[Len(events)] = Ev("close")

\* an extraction raised on a failing catalog query
ClosedAfterFailedCatalogQuery ==
    /\ pc = "extracted"
    /\ result.raised
    /\ events = <<Ev("connect"), Ev("close")>>

-----------------------------------------------------------------------------
(* Order of the generated statements                                       *)

\* the positions of the lines of a text that begin with one of the fragments
LinesStarting(text, firsts) ==
    {i \in 1..Len(text) : text[i] # <<>> /\ text[i][1] \in firsts}

TableLines(text) == LinesStarting(text, {"CREATE TABLE IF NOT EXISTS "})

IndexLines(text) ==
    LinesStarting(text, {"CREATE INDEX IF NOT EXISTS ", "CREATE UNIQUE INDEX IF NOT EXISTS "})

InsertLines(text) == LinesStarting(text, {"INSERT OR IGNORE INTO "})

\* the lines of a text at a set of positions, in text order
LinesAt(text, positions) ==
    SelectSeq([i \in 1..Len(text) |-> IF i \in positions THEN text[i] ELSE <<>>],
              LAMBDA line : line # <<>>)

\* <<table, index name>> for every index of a document, tables in document
\* order and the indexes of a table in their order
IndexesInOrder(schema) ==
    Concat([t \in 1..Len(schema.tables) |->
              [i \in 1..Len(GetOr(schema.tables[t].val, "indexes", <<>>)) |->
                  <<schema.tables[t].key, schema.tables[t].val.indexes[i].name>>]])

\* the lines after the CREATE TABLE line at position p are the column lines in
\* column order, then one FOREIGN KEY line per column with a foreign_key in
\* column order, then the closing line
TableBodyInOrder(text, p, table_info) ==
    LET columns == table_info.columns
        fkcols == FkColumns(table_info)
    IN /\ \A c \in 1..Len(columns) :
             /\ text[p + c][1] = Indent
             /\ text[p + c][2] = columns[c].key
       /\ \A f \in 1..Len(fkcols) :
             /\ text[p + Len(columns) + f][1] = Indent
             /\ text[p + Len(columns) + f][2] = "FOREIGN KEY ("
             /\ text[p + Len(columns) + f][3] = fkcols[f].key
       /\ text[p + Len(columns) + Len(fkcols) + 1][1]
             \in {")", ") ENGINE=InnoDB DEFAULT CHARSET=utf8mb4 COLLATE=utf8mb4_unicode_ci"}

\* the statements of text are in the order the claim gives for schema
StatementsInDocumentOrder(text, schema) ==
    LET table_lines == LinesAt(text, TableLines(text))
        index_lines == LinesAt(text, IndexLines(text))
    IN /\ [t \in 1..Len(table_lines) |-> table_lines[t][2]]
             = [t \in 1..Len(schema.tables) |-> schema.tables[t].key]
       /\ [i \in 1..Len(index_lines) |-> <<index_lines[i][4], index_lines[i][2]>>]
             = IndexesInOrder(schema)
       /\ \A i \in TableLines(text), j \in IndexLines(text) : i < j
       /\ \A i \in TableLines(text) \cup IndexLines(text), j \in InsertLines(text) : i < j
       /\ \A p \in TableLines(text) :
             TableBodyInOrder(text, p, OGet(schema.tables, text[p][2]))

\* C25: in the generated text the CREATE TABLE statements are in the
\* document's table order, all before any CREATE INDEX; the CREATE INDEX
\* statements are in table order then index order, all before any INSERT;
\* within a CREATE TABLE the column lines are in column order, followed by one
\* FOREIGN KEY clause per column with a foreign_key, in column order.
GeneratedInDocumentOrder ==
    (pc = "generated" /\ ~result.raised) => StatementsInDocumentOrder(result.text, doc)

\* text was generated for a document that lists posts before the users table
\* posts refers to, with indexes and seed records
ReferringTableGeneratedFirst ==
    /\ pc = "generated"
    /\ ~result.raised
    /\ doc.tables[1].key = "posts"
    /\ FkColumns(doc.tables[1].val) # <<>>
    /\ IndexLines(result.text) # {}
    /\ InsertLines(result.text) # {}

-----------------------------------------------------------------------------
(* Types to the engine and back                                            *)

\* C27: for each engine and each abstract type among INTEGER, TEXT,
\* VARCHAR(n), BOOLEAN, DATE and DATETIME, the native type the generator
\* writes, read back through the introspector's parsing of the type the
\* engine's catalog reports, is the abstract type again.
TypeRoundTrip ==
    (pc = "parsed" /\ result.type \in RoundTripTypes) => result.back = result.type

\* The same for every case but BOOLEAN on MySQL.
TypeRoundTripButMysqlBoolean ==
    ( /\ pc = "parsed"
      /\ result.type \in RoundTripTypes
      /\ ~(result.db_type = "mysql" /\ result.type = "BOOLEAN") )
    => result.back = result.type

\* DATETIME went to PostgreSQL's TIMESTAMP and came back
DatetimeBackFromTimestamp ==
    /\ pc = "parsed"
    /\ result.db_type = "postgresql"
    /\ result.type = "DATETIME"
    /\ result.native = "TIMESTAMP"
    /\ result.back = "DATETIME"

-----------------------------------------------------------------------------
(* The caller's document and the keys of seed records                      *)

DistinctIn(records, k) ==
    \A i, j \in 1..Len(records) :
        (i < j /\ OHas(records[i], k) /\ OHas(records[j], k))
            => ~SameValue(OGet(records[i], k), OGet(records[j], k))

\* the seed tables of a document that it defines with a primary key, as positions
KeyedSeedTables(schema) ==
    {s \in 1..Len(schema.seed_data) :
        /\ OHas(schema.tables, schema.seed_data[s].key)
        /\ PrimaryKeyColumn(GetOr(OGet(schema.tables, schema.seed_data[s].key),
                                  "columns", <<>>)) # ""}

\* C29: after the seed processing of json_to_sql no two records of a seed
\* table carry the same primary-key value, provided the primary-key values
\* given in the document's records are pairwise different.
ProcessedKeysDistinct ==
    (pc = "generated" /\ ~result.raised /\ Has(doc, "seed_data")) =>
        \A s \in KeyedSeedTables(doc) :
            LET k == PrimaryKeyColumn(OGet(doc.tables, doc.seed_data[s].key).columns)
            IN DistinctIn(doc.seed_data[s].val, k)
                  => DistinctIn(_process_seed_data(doc.seed_data, doc.tables)[s].val, k)

\* Keys are generated for the records without one only: a record that has a
\* key in the document keeps it.
GivenKeysKept ==
    (pc = "generated" /\ ~result.raised /\ Has(doc, "seed_data")) =>
        \A s \in KeyedSeedTables(doc) : \A i \in 1..Len(doc.seed_data[s].val) :
            LET k == PrimaryKeyColumn(OGet(doc.tables, doc.seed_data[s].key).columns)
            IN OHas(doc.seed_data[s].val[i], k)
                  => _process_seed_data(doc.seed_data, doc.tables)[s].val[i]
                         = doc.seed_data[s].val[i]

=============================================================================
